---------------------------- MODULE Spec2Model ----------------------------
(***************************************************************************)
(* Model of the financial engine of the real-estate calculator:            *)
(* calculateAmortization, calculateGermanTaxSavings and getMonthsInYear    *)
(* (src/src/core/calculations.js), calculateOptimalScenario                *)
(* (src/src/utils/url_state.js), calculateInvestmentMetrics,               *)
(* extendAmortizationSchedule and aggregateToCalendarYears                 *)
(* (src/unnamed/part_002) and performCalculations (src/src/ui/main.js).    *)
(*                                                                         *)
(* Numbers.  The program computes with IEEE doubles.  Here an amount of    *)
(* money is an integer count of mills (1/1000 of a currency unit), so the  *)
(* program's 0.01 is Cent = 10 mills and 1.00 is Unit = 1000 mills.  A     *)
(* product or quotient is rounded to the nearest mill (RDiv), where the    *)
(* program rounds to the nearest double.  Percentages (interest rate, tax  *)
(* rate, repayment rate) are integers; a division by 100 or by 12 of the   *)
(* source is folded into the divisor of the RDiv that uses the value.      *)
(***************************************************************************)
EXTENDS Integers, Sequences, FiniteSets, TLC

VARIABLES
    pc,              \* position of the program: which function is running
    params,          \* main.js: const params = getInputValues()
    optimal,         \* main.js: const optimal = calculateOptimalScenario(...)
    taxArgs,         \* calculateGermanTaxSavings: its five arguments
    taxCalc,         \* main.js: const taxCalc = calculateGermanTaxSavings(...)
    principal,       \* calculateAmortization: argument principal
    monthlyPayment,  \* calculateAmortization: argument monthlyPayment
    annualRate,      \* calculateAmortization: argument annualRate (percent)
    balance,         \* calculateAmortization: let balance
    totalInterest,   \* calculateAmortization: let totalInterest
    month,           \* calculateAmortization: let month
    schedule,        \* calculateAmortization: const schedule (array of entries)
    amortization,    \* calculateInvestmentMetrics: argument amortization
    metricsMonth,    \* calculateInvestmentMetrics: let month of the main loop
    cumulativeCashFlow,       \* calculateInvestmentMetrics: let cumulativeCashFlow
    monthlyCashFlowSchedule,  \* calculateInvestmentMetrics: the array of that name
    cashFlowSchedule,         \* calculateInvestmentMetrics: the array of that name
    metrics,         \* main.js: const metrics = calculateInvestmentMetrics(...)
    extendArgs,      \* extendAmortizationSchedule: arguments amortization, targetMonths
    extendedAmortization,  \* extendAmortizationSchedule: the array it returns
    monthsArgs,      \* getMonthsInYear: its four arguments
    monthsInYear,    \* getMonthsInYear: the number it returns
    monthlyData,     \* aggregateToCalendarYears: argument monthlyData
    aggArgs,         \* aggregateToCalendarYears: startMonth, startYear, initialValues
    aggIndex,        \* aggregateToCalendarYears: position of the forEach
    lastState,       \* aggregateToCalendarYears: let lastState
    yearlyData,      \* aggregateToCalendarYears: const yearlyData, keyed by year
    aggResult,       \* aggregateToCalendarYears: the sorted array it returns
    taxSavingsSchedule,  \* performCalculations: const taxSavingsSchedule
    firstResult      \* of two calls with the same arguments: [value |-> what the first returned]

amortVars == <<principal, monthlyPayment, annualRate, balance, totalInterest,
               month, schedule>>

metricsVars == <<amortization, metricsMonth, cumulativeCashFlow,
                 monthlyCashFlowSchedule, cashFlowSchedule, metrics>>

extendVars == <<extendArgs, extendedAmortization>>

monthsVars == <<monthsArgs, monthsInYear>>

aggVars == <<monthlyData, aggArgs, aggIndex, lastState, yearlyData, aggResult>>

chartVars == <<extendVars, monthsVars, aggVars, taxSavingsSchedule, firstResult>>

vars == <<pc, params, optimal, taxArgs, taxCalc, amortVars, metricsVars,
          chartVars>>

\* the value of a variable that holds nothing yet
None == [none |-> TRUE]

\* calculateInvestmentMetrics has not been called
MetricsIdle ==
    /\ amortization = <<>>
    /\ metricsMonth = 0
    /\ cumulativeCashFlow = 0
    /\ monthlyCashFlowSchedule = <<>>
    /\ cashFlowSchedule = <<>>
    /\ metrics = None

\* extendAmortizationSchedule, getMonthsInYear and aggregateToCalendarYears
\* have not been called
ChartIdle ==
    /\ extendArgs = None /\ extendedAmortization = None
    /\ monthsArgs = None /\ monthsInYear = None
    /\ monthlyData = <<>> /\ aggArgs = None /\ aggIndex = 0
    /\ lastState = None /\ yearlyData = None /\ aggResult = None
    /\ taxSavingsSchedule = None /\ firstResult = None

\* calculateAmortization has not been called
AmortIdle ==
    /\ principal = 0 /\ monthlyPayment = 0 /\ annualRate = 0 /\ balance = 0
    /\ totalInterest = 0 /\ month = 0 /\ schedule = <<>>

-----------------------------------------------------------------------------
(* Fixed-point arithmetic *)

\* 0.01 currency units, the tolerance of calculations.js:50, in mills
Cent == 10

\* one currency unit in mills
Unit == 100 * Cent

\* a / b rounded to the nearest integer (b > 0), halves rounded up
RDiv(a, b) == (a + (b \div 2)) \div b

\* Math.abs
Abs(x) == IF x < 0 THEN -x ELSE x

\* Number(x.toFixed(2)): a mill amount rounded to whole cents
ToFixed2(x) == IF x >= 0 THEN RDiv(x, Cent) * Cent ELSE -(RDiv(-x, Cent) * Cent)

\* Math.ceil(a / b) for b > 0
CeilDiv(a, b) == -((-a) \div b)

-----------------------------------------------------------------------------
(* calculateAmortization(principal, monthlyPayment, annualRate) *)

\* const MAX_MONTHS = 1200; // 100 years
MAX_MONTHS == 1200

\* const interestPayment = balance * monthlyRate, monthlyRate = annualRate / 100 / 12
InterestPayment(bal, rate) == RDiv(bal * rate, 100 * 12)

PrincipalPaymentInterestOnTop(bal, payment, interest) ==
    IF bal < payment THEN bal ELSE IF payment <= 0 THEN 0 ELSE payment

PrincipalPaymentNoClamp(bal, payment, interest) ==
    IF payment - interest <= 0 THEN 0 ELSE payment - interest

PrincipalPaymentNoCap(bal, payment, interest) ==
    IF bal < payment - interest THEN bal ELSE payment - interest

\* let principalPayment = monthlyPayment - interestPayment, capped at 0 from
\* below and clamped to the balance from above
PrincipalPayment(bal, payment, interest) ==
    LET raw    == payment - interest
        capped == IF raw <= 0 THEN 0 ELSE raw
    IN  IF bal < capped THEN bal ELSE capped

SnapBalanceNever(bal) == bal

\* if (balance < 0.01) balance = 0;
SnapBalance(bal) == IF bal < Cent THEN 0 ELSE bal

LoopCondOffByOne(bal, m) == bal > 0 /\ m < MAX_MONTHS - 1

LoopCondNonZero(bal, m) == bal # 0 /\ m < MAX_MONTHS

\* while (balance > 0 && month < MAX_MONTHS)
LoopCond(bal, m) == bal > 0 /\ m < MAX_MONTHS

\* one iteration of the while loop
AmortStep ==
    /\ pc = "amort"
    /\ LoopCond(balance, month)
    /\ LET interestPayment  == InterestPayment(balance, annualRate)
           principalPayment == PrincipalPayment(balance, monthlyPayment, interestPayment)
           newBalance       == balance - principalPayment
       IN  /\ totalInterest' = totalInterest + interestPayment
           /\ month' = month + 1
           /\ schedule' = Append(schedule,
                  [month            |-> month + 1,
                   payment          |-> principalPayment + interestPayment,
                   interestPayment  |-> interestPayment,
                   principalPayment |-> principalPayment,
                   balance          |-> newBalance,
                   totalInterest    |-> totalInterest + interestPayment])
           /\ balance' = SnapBalance(newBalance)
    /\ UNCHANGED <<pc, params, optimal, taxArgs, taxCalc,
                   principal, monthlyPayment, annualRate, metricsVars,
                   chartVars>>

\* the loop condition fails: return schedule
AmortReturn ==
    /\ pc = "amort"
    /\ ~LoopCond(balance, month)
    /\ pc' = "amortized"
    /\ UNCHANGED <<params, optimal, taxArgs, taxCalc, amortVars, metricsVars,
                   chartVars>>

-----------------------------------------------------------------------------
(* Inputs of calculateAmortization *)

\* largest principal drawn, in currency units: needs more than MAX_MONTHS
\* payments of one unit
MaxLoan == 1201

\* largest annual rate drawn, in percent
MaxRate == 12

\* largest monthly payment drawn, in currency units
MaxPay == 100

Principals == {-Unit, 0, Cent \div 2, 12 * Unit, 100 * Unit + Cent \div 2,
               (MaxLoan - 1) * Unit, MaxLoan * Unit}

Payments == {0, Unit, 12 * Unit, MaxPay * Unit}

Rates == {0, MaxRate}

\* entry of calculateAmortization: lines 14-18
AmortEntry(p, m, r) ==
    /\ principal = p
    /\ monthlyPayment = m
    /\ annualRate = r
    /\ balance = p
    /\ schedule = <<>>
    /\ totalInterest = 0
    /\ month = 0

InitAmort ==
    /\ pc = "amort"
    /\ params = None /\ optimal = None /\ taxArgs = None /\ taxCalc = None
    /\ MetricsIdle
    /\ ChartIdle
    /\ \E p \in Principals, m \in Payments, r \in Rates : AmortEntry(p, m, r)

NextAmort == AmortStep \/ AmortReturn

SpecAmort == InitAmort /\ [][NextAmort]_vars

-----------------------------------------------------------------------------
(* Properties of calculateAmortization, checked under SpecAmort *)

Returned == pc = "amortized"

Last == schedule[Len(schedule)]

\* the balance before the payment of entry k
BalanceBefore(k) == IF k = 1 THEN principal ELSE schedule[k - 1].balance

\* totalInterest before entry k
InterestBefore(k) == IF k = 1 THEN 0 ELSE schedule[k - 1].totalInterest

\* monthlyPayment is strictly greater than principal * annualRate / 100 / 12
AboveInterestOnly == monthlyPayment * (100 * 12) > principal * annualRate

InterestNonDecreasing ==
    \A k \in 1..Len(schedule) : schedule[k].totalInterest >= InterestBefore(k)

\* C1 as stated: for P > 0, R >= 0 and M above the first month's interest the
\* returned schedule ends with a balance within 0.01 of zero, and totalInterest
\* never decreases from entry to entry.
C1_PaidOffAlways ==
    (Returned /\ principal > 0 /\ annualRate >= 0 /\ AboveInterestOnly)
        => /\ Len(schedule) > 0
           /\ Abs(Last.balance) <= Cent
           /\ InterestNonDecreasing

\* C1 amended: for P > 0, R >= 0 and M above the first month's interest the loop
\* stops after at most MAX_MONTHS entries, totalInterest never decreases, and a
\* schedule that ends before the MAX_MONTHS ceiling ends with a balance within
\* 0.01 of zero.
C1_PaidOffUnlessCeiling ==
    /\ month <= MAX_MONTHS
    /\ Len(schedule) = month
    /\ (Returned /\ principal > 0 /\ annualRate >= 0 /\ AboveInterestOnly)
        => /\ Len(schedule) \in 1..MAX_MONTHS
           /\ InterestNonDecreasing
           /\ Len(schedule) < MAX_MONTHS => Abs(Last.balance) <= Cent

\* a loan at a positive rate, paid above interest-only, paid off in several
\* payments before the ceiling
C1_Witness ==
    /\ Returned /\ principal > 0 /\ annualRate > 0 /\ AboveInterestOnly
    /\ Len(schedule) > 1 /\ Len(schedule) < MAX_MONTHS
    /\ Last.totalInterest > 0

\* entry k against the balance and the totalInterest before it
EntryOk(k) ==
    /\ schedule[k].balance <= BalanceBefore(k)
    /\ schedule[k].balance >= 0
    /\ schedule[k].totalInterest >= InterestBefore(k)
    /\ schedule[k].principalPayment <= BalanceBefore(k)

\* C2: in every schedule, for every entry, the balance is not larger than the
\* balance before it (the principal for the first entry) and not negative,
\* totalInterest is not smaller than the previous entry's, and principalPayment
\* is at most the balance before the payment.  The newest entry is checked as
\* soon as it is pushed, every entry again when the schedule is returned.
C2_EntryInvariants ==
    /\ Len(schedule) > 0 => EntryOk(Len(schedule))
    /\ Returned => \A k \in 1..Len(schedule) : EntryOk(k)

\* a schedule whose final payment is a partial one, clamped to the balance left
C2_Witness ==
    /\ Returned /\ Len(schedule) >= 2
    /\ Last.principalPayment = BalanceBefore(Len(schedule))
    /\ Last.payment < monthlyPayment
    /\ Last.balance = 0

\* monthlyPayment is at or below principal * annualRate / 100 / 12
AtOrBelowInterestOnly == monthlyPayment * (100 * 12) <= principal * annualRate

NoPrincipalPaid ==
    \A k \in 1..Len(schedule) :
        schedule[k].principalPayment = 0 /\ schedule[k].balance = principal

\* C3 as stated: for P > 0 and M at or below the first month's interest the
\* schedule has exactly 1200 entries, each with principalPayment 0 and balance P.
C3_CeilingAlways ==
    (Returned /\ principal > 0 /\ AtOrBelowInterestOnly)
        => Len(schedule) = MAX_MONTHS /\ NoPrincipalPaid

\* C3 amended: for P >= 0.01 and M at or below the first month's interest the
\* schedule has exactly 1200 entries, each with principalPayment 0 and balance
\* P; for 0 < P < 0.01 it has a single such entry, because the balance below
\* 0.01 is then set to 0.  The loop never runs beyond 1200 entries.
C3_CeilingFromOneCent ==
    /\ Len(schedule) <= MAX_MONTHS
    /\ (Returned /\ principal > 0 /\ AtOrBelowInterestOnly) => NoPrincipalPaid
    /\ (Returned /\ principal >= Cent /\ AtOrBelowInterestOnly)
        => Len(schedule) = MAX_MONTHS
    /\ (Returned /\ principal > 0 /\ principal < Cent /\ AtOrBelowInterestOnly)
        => Len(schedule) = 1

\* a payment exactly equal to a positive first month's interest, run to the ceiling
C3_Witness ==
    /\ Returned /\ principal >= Cent /\ monthlyPayment > 0
    /\ monthlyPayment * (100 * 12) = principal * annualRate
    /\ Len(schedule) = MAX_MONTHS

ZeroRateCase ==
    /\ Returned /\ annualRate = 0 /\ principal > 0 /\ monthlyPayment > 0
    /\ CeilDiv(principal, monthlyPayment) <= MAX_MONTHS

NoInterest == \A k \in 1..Len(schedule) : schedule[k].interestPayment = 0

\* C4 as stated: at rate 0, for P > 0, M > 0 and ceil(P/M) <= 1200, the schedule
\* has exactly ceil(P/M) entries and every interestPayment is 0.
C4_ZeroRateCeil ==
    ZeroRateCase
        => Len(schedule) = CeilDiv(principal, monthlyPayment) /\ NoInterest

\* C4 amended: at rate 0, for P > 0, M > 0 and ceil(P/M) <= 1200, every
\* interestPayment is 0 and the number of entries is the least n >= 1 with
\* P - n*M < 0.01: ceil(P/M), or fewer when a balance below 0.01 is written off.
C4_ZeroRateUpToOneCent ==
    ZeroRateCase
        => /\ NoInterest
           /\ Len(schedule) >= 1
           /\ Len(schedule) <= CeilDiv(principal, monthlyPayment)
           /\ principal - Len(schedule) * monthlyPayment < Cent
           /\ Len(schedule) > 1
                => principal - (Len(schedule) - 1) * monthlyPayment >= Cent

\* a zero-rate loan of several payments whose last payment is a partial one
C4_Witness ==
    /\ ZeroRateCase
    /\ Len(schedule) > 1
    /\ Len(schedule) = CeilDiv(principal, monthlyPayment)
    /\ Last.payment < monthlyPayment

\* C5: for every principal P <= 0 the schedule is empty: no entry is ever added.
C5_EmptyForNonPositivePrincipal ==
    principal <= 0 => (schedule = <<>> /\ month = 0)

\* calculateAmortization has returned for a negative and for a zero principal
C5_Witness ==
    Returned /\ principal < 0 /\ monthlyPayment > 0 /\ annualRate > 0 /\ schedule = <<>>

-----------------------------------------------------------------------------
(* calculateGermanTaxSavings(buildingValue, annualInterest, annualExpenses,
   taxRate, annualRentalIncome) *)

TaxSavingsSigned(netRentalResult, taxRate) ==
    RDiv((-netRentalResult) * taxRate, 100)

\* const taxSavings = netRentalResult < 0
\*     ? Math.abs(netRentalResult) * (taxRate / 100) : 0;
TaxSavings(netRentalResult, taxRate) ==
    IF netRentalResult < 0 THEN RDiv(Abs(netRentalResult) * taxRate, 100) ELSE 0

calculateGermanTaxSavings(buildingValue, annualInterest, annualExpenses, taxRate, annualRentalIncome) ==
    LET annualDepreciation == RDiv(buildingValue * 2, 100)
        totalDeductible    == annualDepreciation + annualInterest + annualExpenses
        netRentalResult    == annualRentalIncome - totalDeductible
    IN  [annualDepreciation |-> annualDepreciation,
         annualInterest     |-> annualInterest,
         annualExpenses     |-> annualExpenses,
         totalDeductible    |-> totalDeductible,
         annualRentalIncome |-> annualRentalIncome,
         netRentalResult    |-> netRentalResult,
         taxSavings         |-> TaxSavings(netRentalResult, taxRate)]

\* a call of calculateGermanTaxSavings with the arguments in taxArgs
TaxCall ==
    /\ pc = "tax"
    /\ taxCalc' = calculateGermanTaxSavings(taxArgs.buildingValue,
                      taxArgs.annualInterest, taxArgs.annualExpenses,
                      taxArgs.taxRate, taxArgs.annualRentalIncome)
    /\ pc' = "taxed"
    /\ UNCHANGED <<params, optimal, taxArgs, amortVars, metricsVars, chartVars>>

\* largest tax rate drawn, in percent
MaxTaxRate == 100

TaxRates == {0, 40, 42, 98, 99, MaxTaxRate}

TaxArgSet ==
    [buildingValue      : {0, 1234 * Unit + 1, 4000 * Unit},
     annualInterest     : {0, 150 * Unit},
     annualExpenses     : {0, 30 * Unit},
     taxRate            : TaxRates,
     annualRentalIncome : {0, 180 * Unit, 260 * Unit, 300 * Unit}]

InitTax ==
    /\ pc = "tax"
    /\ taxArgs \in TaxArgSet
    /\ taxCalc = None
    /\ params = None /\ optimal = None
    /\ AmortIdle
    /\ MetricsIdle
    /\ ChartIdle

NextTax == TaxCall

SpecTax == InitTax /\ [][NextTax]_vars

-----------------------------------------------------------------------------
(* Properties of calculateGermanTaxSavings, checked under SpecTax *)

\* x equals num / den to the nearest mill
IsQuotient(x, num, den) == 2 * Abs(den * x - num) <= den

\* C6: annualDepreciation = buildingValue * 0.02, totalDeductible =
\* depreciation + interest + expenses, netRentalResult = income -
\* totalDeductible, taxSavings = 0 whenever income >= totalDeductible and
\* (totalDeductible - income) * taxRate / 100 otherwise; taxSavings is never
\* negative.
C6_TaxSnapshot ==
    pc = "taxed" =>
        /\ IsQuotient(taxCalc.annualDepreciation, 2 * taxArgs.buildingValue, 100)
        /\ taxCalc.totalDeductible = taxCalc.annualDepreciation
               + taxArgs.annualInterest + taxArgs.annualExpenses
        /\ taxCalc.netRentalResult =
               taxArgs.annualRentalIncome - taxCalc.totalDeductible
        /\ taxArgs.annualRentalIncome >= taxCalc.totalDeductible
               => taxCalc.taxSavings = 0
        /\ taxArgs.annualRentalIncome < taxCalc.totalDeductible
               => IsQuotient(taxCalc.taxSavings,
                      (taxCalc.totalDeductible - taxArgs.annualRentalIncome)
                          * taxArgs.taxRate, 100)
        /\ taxCalc.taxSavings >= 0

\* the loss case: building 4000, interest 150, expenses 30, rate 42 %, income
\* 180 give depreciation 80, deductible 260, result -80 and savings 33.60
C6_Witness ==
    /\ pc = "taxed"
    /\ taxArgs.taxRate = 42
    /\ taxCalc.annualDepreciation = 80 * Unit
    /\ taxCalc.totalDeductible = 260 * Unit
    /\ taxCalc.netRentalResult = -(80 * Unit)
    /\ taxCalc.taxSavings = 33 * Unit + 60 * Cent

-----------------------------------------------------------------------------
(* calculateOptimalScenario(debtAmount, interestRate, buildingValue,
   annualExpenses, taxRate, applyTax, targetCashFlow, targetRepaymentRate) *)

\* const initialMonthlyInterest = debtAmount * monthlyInterestRate, with
\* monthlyInterestRate = interestRate / 100 / 12
InitialMonthlyInterest(debtAmount, interestRate) ==
    RDiv(debtAmount * interestRate, 100 * 12)

OptimalMonthlyPaymentDefaultRepayment(debtAmount, interestRate, targetRepaymentRate) ==
    InitialMonthlyInterest(debtAmount, interestRate)
        + RDiv(debtAmount * 2, 100 * 12)

\* const monthlyRepayment = (debtAmount * (targetRepaymentRate / 100)) / 12;
\* const optimalMonthlyPayment = initialMonthlyInterest + monthlyRepayment;
OptimalMonthlyPayment(debtAmount, interestRate, targetRepaymentRate) ==
    InitialMonthlyInterest(debtAmount, interestRate)
        + RDiv(debtAmount * targetRepaymentRate, 100 * 12)

MonthlyDeductiblesWithoutInterest(debtAmount, interestRate, buildingValue, annualExpenses) ==
    RDiv(buildingValue * 2, 100 * 12) + RDiv(annualExpenses, 12)

\* const monthlyDeductibles = initialMonthlyInterest + monthlyAfA + monthlyExpenses,
\* monthlyAfA = (buildingValue * 0.02) / 12, monthlyExpenses = annualExpenses / 12
MonthlyDeductibles(debtAmount, interestRate, buildingValue, annualExpenses) ==
    InitialMonthlyInterest(debtAmount, interestRate)
        + RDiv(buildingValue * 2, 100 * 12)
        + RDiv(annualExpenses, 12)

\* 1 - t with t = taxRate / 100, in hundredths
OneMinusT(taxRate) == 100 - taxRate

MinRentNoDeduction(payment, targetCashFlow, deductibles, taxRate, applyTax) ==
    IF applyTax /\ taxRate < 99
    THEN RDiv(100 * (payment + targetCashFlow), OneMinusT(taxRate))
    ELSE payment + targetCashFlow

MinRentStrictGuard(payment, targetCashFlow, deductibles, taxRate, applyTax) ==
    IF applyTax /\ taxRate <= 99
    THEN RDiv(100 * (payment + targetCashFlow) - deductibles * taxRate,
              OneMinusT(taxRate))
    ELSE payment + targetCashFlow

\* let minRent: lines 132-152.  The guard t >= 0.99 is taxRate >= 99, and
\* (payment + target - deductibles * t) / (1 - t) is taken with numerator and
\* denominator both multiplied by 100
MinRent(payment, targetCashFlow, deductibles, taxRate, applyTax) ==
    IF applyTax
    THEN IF taxRate >= 99
         THEN payment + targetCashFlow
         ELSE RDiv(100 * (payment + targetCashFlow) - deductibles * taxRate,
                   OneMinusT(taxRate))
    ELSE payment + targetCashFlow

calculateOptimalScenario(debtAmount, interestRate, buildingValue, annualExpenses, taxRate, applyTax, targetCashFlow, targetRepaymentRate) ==
    LET optimalMonthlyPayment ==
            OptimalMonthlyPayment(debtAmount, interestRate, targetRepaymentRate)
        monthlyDeductibles ==
            MonthlyDeductibles(debtAmount, interestRate, buildingValue, annualExpenses)
        minRent == MinRent(optimalMonthlyPayment, targetCashFlow,
                           monthlyDeductibles, taxRate, applyTax)
    IN  [monthlyPayment |-> ToFixed2(optimalMonthlyPayment),
         minRent        |-> ToFixed2(minRent)]

\* handleOptimization(): calculateOptimalScenario on the input values
handleOptimization(p) ==
    calculateOptimalScenario(p.debtAmount, p.interestRate, p.buildingValue,
                             p.annualExpenses, p.taxRate, p.applyGermanTax,
                             p.targetCashFlow, p.targetRepayment)

\* a call of handleOptimization on its own
HandleOptimization ==
    /\ pc = "optimize"
    /\ optimal' = handleOptimization(params)
    /\ pc' = "optimized"
    /\ UNCHANGED <<params, taxArgs, taxCalc, amortVars, metricsVars, chartVars>>

\* getInputValues(): the parsed inputs; startMonth 0 is January
BaseParams ==
    [propertyWorth      |-> 4000 * Unit,
     purchasePrice      |-> 4000 * Unit,
     additionalCosts    |-> 400 * Unit,
     expectedRent       |-> 15 * Unit,
     debtAmount         |-> 3000 * Unit,
     monthlyPayment     |-> 15 * Unit,
     interestRate       |-> 4,
     applyGermanTax     |-> FALSE,
     buildingValue      |-> 2000 * Unit,
     taxRate            |-> 40,
     annualExpenses     |-> 12 * Unit,
     startMonth         |-> 0,
     startYear          |-> 2024,
     targetCashFlow     |-> 0,
     targetRepayment    |-> 2,
     isOptimizationMode |-> TRUE]

\* largest repayment rate drawn, in percent
MaxRepayment == 3

OptParamSet ==
    {[BaseParams EXCEPT !.debtAmount = d, !.interestRate = r,
                        !.buildingValue = b, !.annualExpenses = e,
                        !.taxRate = t, !.applyGermanTax = a,
                        !.targetCashFlow = c, !.targetRepayment = q] :
        d \in {0, 1000 * Unit, 3000 * Unit},
        r \in {0, 3, 4},
        b \in {0, 2000 * Unit, 6000 * Unit},
        e \in {0, 12 * Unit},
        t \in TaxRates,
        a \in BOOLEAN,
        c \in {-(Unit \div 2), 0, Unit},
        q \in {2, MaxRepayment}}

InitOpt ==
    /\ pc = "optimize"
    /\ params \in OptParamSet
    /\ optimal = None
    /\ taxArgs = None /\ taxCalc = None
    /\ AmortIdle
    /\ MetricsIdle
    /\ ChartIdle

NextOpt == HandleOptimization

SpecOpt == InitOpt /\ [][NextOpt]_vars

-----------------------------------------------------------------------------
(* Properties of calculateOptimalScenario, checked under SpecOpt *)

Optimized == pc = "optimized"

\* the deductibles of the first month: first-month interest +
\* buildingValue * 0.02 / 12 + annualExpenses / 12
FirstMonthDeductibles ==
    RDiv(params.debtAmount * params.interestRate, 100 * 12)
        + RDiv(params.buildingValue * 2, 100 * 12)
        + RDiv(params.annualExpenses, 12)

\* the Tax Model on the first month: the savings of a year of twelve such
\* months, divided by twelve
FirstMonthTaxSavings ==
    RDiv(calculateGermanTaxSavings(params.buildingValue,
             12 * RDiv(params.debtAmount * params.interestRate, 100 * 12),
             params.annualExpenses, params.taxRate,
             12 * optimal.minRent).taxSavings, 12)

\* rent - payment - tax, where the Tax Model's tax is minus its savings
TaxModelCashFlow ==
    optimal.minRent - optimal.monthlyPayment + FirstMonthTaxSavings

\* the tax the optimizer's own formula puts on a profit: (rent - deductibles) * t
ProfitTax ==
    IF optimal.minRent > FirstMonthDeductibles
    THEN RDiv((optimal.minRent - FirstMonthDeductibles) * params.taxRate, 100)
    ELSE 0

\* C7 as stated: with applyTax, the Tax Model's monthly tax and rent - payment -
\* tax give a net cash flow within 0.05 of targetCashFlow, in the loss region
\* and in the profit region.
C7_TaxModelRoundTrip ==
    (Optimized /\ params.applyGermanTax)
        => Abs(TaxModelCashFlow - params.targetCashFlow) <= 5 * Cent

\* C7 amended: with applyTax and taxRate < 99, the Tax Model's monthly tax and
\* rent - payment - tax give a net cash flow within 0.05 of targetCashFlow when
\* the solved rent is at or below the deductibles (loss); when it is above them
\* (profit) the Tax Model's tax is 0 and the net cash flow exceeds targetCashFlow
\* by (minRent - deductibles) * taxRate / 100, within 0.05.
C7_TaxModelRoundTripInLoss ==
    (Optimized /\ params.applyGermanTax /\ params.taxRate < 99)
        => /\ optimal.minRent <= FirstMonthDeductibles
                => Abs(TaxModelCashFlow - params.targetCashFlow) <= 5 * Cent
           /\ optimal.minRent > FirstMonthDeductibles
                => /\ FirstMonthTaxSavings = 0
                   /\ Abs(TaxModelCashFlow - ProfitTax - params.targetCashFlow)
                          <= 5 * Cent

\* debt 3000 at 4 %, building 6000, tax rate 40 %: the solved rent 11.67 is
\* below the deductibles 20.00 and the savings close the gap to the payment 15
C7_Witness ==
    /\ Optimized /\ params.applyGermanTax /\ params.taxRate = 40
    /\ params.targetCashFlow = 0
    /\ optimal.monthlyPayment = 15 * Unit
    /\ optimal.minRent = 11 * Unit + 67 * Cent
    /\ FirstMonthDeductibles = 20 * Unit
    /\ FirstMonthTaxSavings > 3 * Unit
    /\ Abs(TaxModelCashFlow) <= 5 * Cent

\* C8: monthlyPayment is debt * rate / 100 / 12 + debt * targetRepaymentRate /
\* 100 / 12 rounded to 2 decimals (a whole number of cents within half a cent,
\* to the mill, of that sum), whatever the tax parameters and targetCashFlow.
C8_OptimalPayment ==
    Optimized =>
        /\ optimal.monthlyPayment % Cent = 0
        /\ Abs(100 * 12 * optimal.monthlyPayment
               - params.debtAmount * (params.interestRate + params.targetRepayment))
               <= 100 * 12 * (Cent \div 2 + 1)

\* debt 1000 at 3 % with 3 % repayment, with the tax logic on and a target of
\* 1.00: the payment is 2.50 + 2.50
C8_Witness ==
    /\ Optimized
    /\ params.debtAmount = 1000 * Unit /\ params.interestRate = 3
    /\ params.targetRepayment = 3
    /\ params.applyGermanTax /\ params.taxRate = 40 /\ params.targetCashFlow = Unit
    /\ optimal.monthlyPayment = 5 * Unit

\* the payment before rounding, as the optimizer computes it
UnroundedPayment ==
    OptimalMonthlyPayment(params.debtAmount, params.interestRate,
                          params.targetRepayment)

\* x is y rounded to 2 decimals
IsRoundedToCents(x, y) == x % Cent = 0 /\ 2 * Abs(x - y) <= Cent

\* x is num / den rounded to the nearest mill and then to 2 decimals
IsQuotientRoundedToCents(x, num, den) ==
    x % Cent = 0 /\ 2 * Abs(den * x - num) <= den * (Cent + 1)

UsesFallback == ~params.applyGermanTax \/ params.taxRate >= 99

\* C9: minRent = payment + target when applyTax is false or taxRate / 100 >=
\* 0.99, and (payment + target - deductibles * t) / (1 - t) otherwise (each
\* rounded to 2 decimals); the divisor used is strictly positive.
C9_MinRentGuarded ==
    Optimized =>
        /\ UsesFallback
            => IsRoundedToCents(optimal.minRent,
                                UnroundedPayment + params.targetCashFlow)
        /\ ~UsesFallback
            => /\ OneMinusT(params.taxRate) > 0
               /\ IsQuotientRoundedToCents(optimal.minRent,
                      100 * (UnroundedPayment + params.targetCashFlow)
                          - FirstMonthDeductibles * params.taxRate,
                      OneMinusT(params.taxRate))

\* tax rate 100 %, where 1 - t is 0: the rent is payment + target = 15 + 1
C9_Witness ==
    /\ Optimized /\ params.applyGermanTax /\ params.taxRate = 100
    /\ params.buildingValue > 0 /\ params.targetCashFlow = Unit
    /\ optimal.monthlyPayment = 15 * Unit
    /\ optimal.minRent = 16 * Unit

-----------------------------------------------------------------------------
(* getMonthsInYear(month, startMonth, startYear, maxMonths = 480) *)

YearOfMonthFromJanuary(m, startMonth, startYear) == startYear + (m \div 12)

\* new Date(startYear, startMonth, 1), setMonth(getMonth() + m), getFullYear()
YearOfMonth(m, startMonth, startYear) == startYear + ((startMonth + m) \div 12)

\* for (let m = month; m >= 0; m--): the first index of the run of indices, down
\* from m, that lie in the year currentYear
RECURSIVE FirstMonthOfYear(_, _, _, _)
FirstMonthOfYear(m, currentYear, startMonth, startYear) ==
    IF m - 1 >= 0 /\ YearOfMonth(m - 1, startMonth, startYear) = currentYear
    THEN FirstMonthOfYear(m - 1, currentYear, startMonth, startYear)
    ELSE m

\* for (let m = month; m <= maxMonths; m++): the last index of the run of
\* indices, up from m, that lie in the year currentYear
RECURSIVE LastMonthOfYear(_, _, _, _, _)
LastMonthOfYear(m, currentYear, startMonth, startYear, maxMonths) ==
    IF m + 1 <= maxMonths /\ YearOfMonth(m + 1, startMonth, startYear) = currentYear
    THEN LastMonthOfYear(m + 1, currentYear, startMonth, startYear, maxMonths)
    ELSE m

getMonthsInYearAssumedTwelve(m, startMonth, startYear, maxMonths) == 12

getMonthsInYear(m, startMonth, startYear, maxMonths) ==
    LET currentYear == YearOfMonth(m, startMonth, startYear)
    IN  LastMonthOfYear(m, currentYear, startMonth, startYear, maxMonths)
            - FirstMonthOfYear(m, currentYear, startMonth, startYear) + 1

\* a call of getMonthsInYear
MonthsCall ==
    /\ pc = "months"
    /\ monthsInYear' = getMonthsInYear(monthsArgs.month, monthsArgs.startMonth,
                                       monthsArgs.startYear, monthsArgs.maxMonths)
    /\ pc' = "monthsDone"
    /\ UNCHANGED <<params, optimal, taxArgs, taxCalc, amortVars, metricsVars,
                   extendVars, monthsArgs, aggVars, taxSavingsSchedule, firstResult>>

\* maxMonths = 480, the default of the parameter
DEFAULT_MAX_MONTHS == 480

\* a short horizon drawn besides the default: two full years and a half
MaxHorizon == 30

\* the horizons drawn: one that ends inside the start year, a short one, and
\* the default that every caller uses
Horizons == {5, MaxHorizon, DEFAULT_MAX_MONTHS}

InitMonths ==
    /\ pc = "months"
    /\ params = None /\ optimal = None /\ taxArgs = None /\ taxCalc = None
    /\ AmortIdle
    /\ MetricsIdle
    /\ extendArgs = None /\ extendedAmortization = None
    /\ monthsInYear = None
    /\ monthlyData = <<>> /\ aggArgs = None /\ aggIndex = 0
    /\ lastState = None /\ yearlyData = None /\ aggResult = None
    /\ taxSavingsSchedule = None /\ firstResult = None
    /\ \E maxMonths \in Horizons :
           \E m \in 0..maxMonths, startMonth \in 0..11 :
               monthsArgs = [month |-> m, startMonth |-> startMonth,
                             startYear |-> 2024, maxMonths |-> maxMonths]

NextMonths == MonthsCall

SpecMonths == InitMonths /\ [][NextMonths]_vars

\* has getMonthsInYear returned
MonthsDone == pc = "monthsDone"

\* the calendar year of simulation month k: the start date plus k months
CalendarYear(k) == monthsArgs.startYear + ((monthsArgs.startMonth + k) \div 12)

\* the simulation months of the horizon that lie in the calendar year of month m
SameYearMonths ==
    {k \in 0..monthsArgs.maxMonths : CalendarYear(k) = CalendarYear(monthsArgs.month)}

\* the index of the December of the calendar year of month m
DecemberIndex ==
    12 * (CalendarYear(monthsArgs.month) - monthsArgs.startYear) + 11
        - monthsArgs.startMonth

\* C18: getMonthsInYear returns the number of month indices k in 0..maxMonths
\* whose calendar year is that of index m: 12 - startMonth in the start year, 12
\* in a later year that lies fully inside the horizon, and in the final year,
\* which the horizon cuts, the count up to maxMonths.
C18_MonthsOfCalendarYear ==
    MonthsDone =>
        /\ monthsInYear = Cardinality(SameYearMonths)
        /\ DecemberIndex <= monthsArgs.maxMonths
            => /\ CalendarYear(monthsArgs.month) = monthsArgs.startYear
                   => monthsInYear = 12 - monthsArgs.startMonth
               /\ CalendarYear(monthsArgs.month) > monthsArgs.startYear
                   => monthsInYear = 12
        /\ DecemberIndex > monthsArgs.maxMonths
            => /\ monthsInYear < 12
               /\ CalendarYear(monthsArgs.month) > monthsArgs.startYear
                   => monthsInYear = monthsArgs.maxMonths - (DecemberIndex - 11) + 1
               /\ CalendarYear(monthsArgs.month) = monthsArgs.startYear
                   => monthsInYear = monthsArgs.maxMonths + 1

\* a June start and the default horizon: month 480 is June 2064, the sixth and
\* last month of the final year
C18_Witness ==
    /\ MonthsDone
    /\ monthsArgs.maxMonths = DEFAULT_MAX_MONTHS
    /\ monthsArgs.startMonth = 5
    /\ monthsArgs.month = 480
    /\ monthsInYear = 6

\* the start year and a full year are reached as well
C18_StartYearReached ==
    ~(MonthsDone /\ monthsArgs.startMonth = 5 /\ monthsArgs.month = 0
        /\ monthsInYear = 7)

C18_FullYearReached ==
    ~(MonthsDone /\ monthsArgs.startMonth = 5 /\ monthsArgs.month = 12
        /\ monthsInYear = 12)

-----------------------------------------------------------------------------
(* calculateInvestmentMetrics(params, amortization, getMonthsInYearFn) *)

\* const MAX_MONTHS = 480 of calculateInvestmentMetrics
METRICS_MAX_MONTHS == 480

MetricsLoopCondExclusive(m) == m < METRICS_MAX_MONTHS

\* for (let month = 0; month <= MAX_MONTHS; month++)
MetricsLoopCond(m) == m <= METRICS_MAX_MONTHS

\* const totalInterest = amortization.length > 0
\*     ? amortization[amortization.length - 1].totalInterest : 0;
FinalTotalInterest(amort) ==
    IF Len(amort) > 0 THEN amort[Len(amort)].totalInterest ELSE 0

TaxOnRentWithoutInterest(p, interestPayment) ==
    IF p.applyGermanTax
    THEN RDiv((p.expectedRent - (RDiv(p.buildingValue * 2, 100 * 12)
                                    + RDiv(p.annualExpenses, 12)))
                  * p.taxRate, 100)
    ELSE 0

TaxOnRentLossOnly(p, interestPayment) ==
    IF p.applyGermanTax
    THEN LET monthlyNetRental == p.expectedRent
                 - (RDiv(p.buildingValue * 2, 100 * 12) + interestPayment
                        + RDiv(p.annualExpenses, 12))
         IN  IF monthlyNetRental < 0
             THEN RDiv(monthlyNetRental * p.taxRate, 100) ELSE 0
    ELSE 0

\* taxOnRent of one month: 0 without applyGermanTax, else
\* (expectedRent - (monthlyAfA + interestPayment + monthlyExpenses)) * (taxRate / 100)
TaxOnRent(p, interestPayment) ==
    IF p.applyGermanTax
    THEN LET monthlyAfA         == RDiv(p.buildingValue * 2, 100 * 12)
             monthlyExpenses    == RDiv(p.annualExpenses, 12)
             monthlyDeductibles == monthlyAfA + interestPayment + monthlyExpenses
             monthlyNetRental   == p.expectedRent - monthlyDeductibles
         IN  RDiv(monthlyNetRental * p.taxRate, 100)
    ELSE 0

\* Math.min(0, x)
MinZero(x) == IF x < 0 THEN x ELSE 0

MortgagePaymentNominal(p, amort, m) ==
    IF m < Len(amort) THEN p.monthlyPayment ELSE 0

\* let mortgagePayment = 0; if (month < amortization.length) mortgagePayment =
\* amortization[month].payment
MortgagePayment(p, amort, m) ==
    IF m < Len(amort) THEN amort[m + 1].payment ELSE 0

CumulativeIlliquidFromEquity(p, currentBalance) ==
    (p.purchasePrice + p.additionalCosts - p.debtAmount)
        + (p.debtAmount - currentBalance)

\* const cumulativeIlliquid = initialPropertyEquity + principalPaidCumulative
CumulativeIlliquid(p, currentBalance) ==
    LET initialPropertyEquity   == p.purchasePrice - p.debtAmount
        principalPaidCumulative == p.debtAmount - currentBalance
    IN  initialPropertyEquity + principalPaidCumulative

\* the record pushed to monthlyCashFlowSchedule for month m, given the
\* cumulative cash flow before this month; amortization[m] of the source is
\* amort[m + 1] here
MonthlyRecord(p, amort, m, cumulativeBefore) ==
    LET has              == m < Len(amort)
        rentIncome       == p.expectedRent
        mortgagePayment  == MortgagePayment(p, amort, m)
        interestPayment  == IF has THEN amort[m + 1].interestPayment ELSE 0
        principalPayment == IF has THEN amort[m + 1].principalPayment ELSE 0
        currentBalance   == IF has THEN amort[m + 1].balance ELSE 0
        taxOnRent        == TaxOnRent(p, interestPayment)
        netMonthlyCashFlow == rentIncome - mortgagePayment - taxOnRent
        monthsInThisYear ==
            getMonthsInYear(m, p.startMonth, p.startYear, METRICS_MAX_MONTHS)
        cumulative       == cumulativeBefore + netMonthlyCashFlow
        cumulativeIlliquid == CumulativeIlliquid(p, currentBalance)
        totalCumulative  == cumulative + cumulativeIlliquid
    IN  [month                  |-> m,
         cashFlow               |-> netMonthlyCashFlow,
         rentIncome             |-> rentIncome,
         mortgagePayment        |-> mortgagePayment,
         taxOnRent              |-> taxOnRent,
         taxReimbursement       |-> -MinZero(taxOnRent),
         netCashFlow            |-> netMonthlyCashFlow,
         annualRentIncome       |-> rentIncome * monthsInThisYear,
         annualMortgagePayment  |-> mortgagePayment * monthsInThisYear,
         annualTaxOnRent        |-> taxOnRent * monthsInThisYear,
         annualTaxReimbursement |-> (-MinZero(taxOnRent)) * monthsInThisYear,
         annualNetCashFlow      |-> netMonthlyCashFlow * monthsInThisYear,
         cumulative             |-> cumulative,
         cumulativeIlliquid     |-> cumulativeIlliquid,
         totalCumulative        |-> totalCumulative,
         balance                |-> currentBalance,
         totalInterest          |-> IF has /\ amort[m + 1].totalInterest # 0
                                    THEN amort[m + 1].totalInterest
                                    ELSE FinalTotalInterest(amort),
         principalPayment       |-> principalPayment,
         interestPayment        |-> interestPayment]

\* one iteration of the main loop: lines 475-550
MetricsStep ==
    /\ pc = "metrics"
    /\ MetricsLoopCond(metricsMonth)
    /\ LET r == MonthlyRecord(params, amortization, metricsMonth, cumulativeCashFlow)
       IN  /\ cumulativeCashFlow' = r.cumulative
           /\ monthlyCashFlowSchedule' = Append(monthlyCashFlowSchedule, r)
           /\ cashFlowSchedule' = Append(cashFlowSchedule,
                  [month              |-> metricsMonth,
                   cumulative         |-> r.cumulative,
                   cumulativeIlliquid |-> r.cumulativeIlliquid,
                   totalCumulative    |-> r.totalCumulative])
    /\ metricsMonth' = metricsMonth + 1
    /\ UNCHANGED <<pc, params, optimal, taxArgs, taxCalc, amortVars,
                   amortization, metrics, chartVars>>

\* cashFlowSchedule.findIndex(item => item.cumulative >= 0), as a 0-based
\* index, -1 when there is none
BreakEvenMonth(cfs) ==
    LET hits == {k \in 1..Len(cfs) : cfs[k].cumulative >= 0}
    IN  IF hits = {} THEN -1
        ELSE (CHOOSE k \in hits : \A j \in hits : k <= j) - 1

\* Math.min(...cashFlowSchedule.map(item => item.cumulative))
MinCumulative(cfs) ==
    LET values == {cfs[k].cumulative : k \in 1..Len(cfs)}
    IN  CHOOSE v \in values : \A w \in values : v <= w

\* cashFlowSchedule.findIndex(item => item.cumulative === minCumulative)
MaxInvestmentMonth(cfs) ==
    LET hits == {k \in 1..Len(cfs) : cfs[k].cumulative = MinCumulative(cfs)}
    IN  IF hits = {} THEN -1
        ELSE (CHOOSE k \in hits : \A j \in hits : k <= j) - 1

\* the loop has ended: lines 552-593, and main.js lines 286-288.  A number of
\* years is held as its number of months (years * 12); the legacy roiSchedule
\* and roi10Years, which performCalculations drops, are left out
MetricsReturn ==
    /\ pc = "metrics"
    /\ ~MetricsLoopCond(metricsMonth)
    /\ LET breakEvenMonth     == BreakEvenMonth(cashFlowSchedule)
           minCumulative      == MinCumulative(cashFlowSchedule)
           maxInvestmentMonth == MaxInvestmentMonth(cashFlowSchedule)
       IN  metrics' =
              [totalInvestment      |-> params.purchasePrice + params.additionalCosts,
               equity               |-> params.purchasePrice + params.additionalCosts
                                            - params.debtAmount,
               payoffYears          |-> Len(amortization),
               totalInterest        |-> FinalTotalInterest(amortization),
               breakEvenYears       |-> IF breakEvenMonth >= 0 THEN breakEvenMonth ELSE 0,
               maxInvestmentNeeded  |-> Abs(minCumulative),
               maxInvestmentAtYears |-> IF maxInvestmentMonth >= 0
                                        THEN maxInvestmentMonth ELSE 0,
               usedRent             |-> params.expectedRent,
               usedMonthlyPayment   |-> params.monthlyPayment]
    /\ pc' = "metricsDone"
    /\ UNCHANGED <<params, optimal, taxArgs, taxCalc, amortVars, amortization,
                   metricsMonth, cumulativeCashFlow, monthlyCashFlowSchedule,
                   cashFlowSchedule, chartVars>>

-----------------------------------------------------------------------------
(* extendAmortizationSchedule(amortization, targetMonths = 480) *)

ExtendNextMonthFromZero(amort) == 0

ExtendNextMonthFromLength(amort) == Len(amort)

\* let nextMonthNum = 0; if (amortization.length > 0) nextMonthNum =
\* amortization[amortization.length - 1].month + 1
ExtendNextMonth(amort) ==
    IF Len(amort) > 0 THEN amort[Len(amort)].month + 1 ELSE 0

\* the entry pushed for a padded month
PaddedEntry(m, finalTotalInterest) ==
    [month            |-> m,
     balance          |-> 0,
     interestPayment  |-> 0,
     principalPayment |-> 0,
     totalInterest    |-> finalTotalInterest]

\* the copy of the schedule followed by one padded entry for every month from
\* nextMonthNum through targetMonths
extendAmortizationSchedule(amort, targetMonths) ==
    LET nextMonthNum == ExtendNextMonth(amort)
        count        == IF targetMonths >= nextMonthNum
                        THEN targetMonths - nextMonthNum + 1 ELSE 0
    IN  [k \in 1..(Len(amort) + count) |->
            IF k <= Len(amort) THEN amort[k]
            ELSE PaddedEntry(nextMonthNum + (k - Len(amort)) - 1,
                             FinalTotalInterest(amort))]

\* a call of extendAmortizationSchedule
ExtendCall ==
    /\ pc = "extend"
    /\ extendedAmortization' =
           extendAmortizationSchedule(extendArgs.amortization,
                                      extendArgs.targetMonths)
    /\ pc' = "extended"
    /\ UNCHANGED <<params, optimal, taxArgs, taxCalc, amortVars, metricsVars,
                   extendArgs, monthsVars, aggVars, taxSavingsSchedule, firstResult>>

\* longest source schedule drawn
MaxSourceLen == 5

\* largest targetMonths drawn
MaxTarget == 8

\* a schedule of n entries whose months start at first: 1 as calculateAmortization
\* numbers them, 0 after the shift of performCalculations
SourceSchedule(first, n) ==
    [k \in 1..n |->
        [month            |-> first + k - 1,
         payment          |-> 100 * Unit + (n - k) * Unit,
         interestPayment  |-> (n - k) * Unit,
         principalPayment |-> 100 * Unit,
         balance          |-> (n - k) * 100 * Unit,
         totalInterest    |-> ((2 * n - k - 1) * k * Unit) \div 2]]

InitExtend ==
    /\ pc = "extend"
    /\ params = None /\ optimal = None /\ taxArgs = None /\ taxCalc = None
    /\ AmortIdle
    /\ MetricsIdle
    /\ extendedAmortization = None
    /\ monthsArgs = None /\ monthsInYear = None
    /\ monthlyData = <<>> /\ aggArgs = None /\ aggIndex = 0
    /\ lastState = None /\ yearlyData = None /\ aggResult = None
    /\ taxSavingsSchedule = None /\ firstResult = None
    /\ \E first \in {0, 1}, n \in 0..MaxSourceLen, target \in 0..MaxTarget :
           extendArgs = [amortization |-> SourceSchedule(first, n),
                         targetMonths |-> target]

\* updateCharts, main.js line 328: the schedule that performCalculations has
\* extended is extended once more, to the same target
ExtendExtended ==
    /\ pc = "extended" /\ firstResult = None
    /\ firstResult' = [value |-> extendedAmortization]
    /\ extendArgs' = [amortization |-> extendedAmortization,
                      targetMonths |-> extendArgs.targetMonths]
    /\ extendedAmortization' =
           extendAmortizationSchedule(extendedAmortization,
                                      extendArgs.targetMonths)
    /\ pc' = "reextended"
    /\ UNCHANGED <<params, optimal, taxArgs, taxCalc, amortVars, metricsVars,
                   monthsVars, aggVars, taxSavingsSchedule>>

NextExtend == ExtendCall \/ ExtendExtended

SpecExtend == InitExtend /\ [][NextExtend]_vars

\* has extendAmortizationSchedule returned
Extended == pc = "extended"

\* the month after the last source entry, 0 for an empty source
MonthAfterSource ==
    IF Len(extendArgs.amortization) = 0 THEN 0
    ELSE extendArgs.amortization[Len(extendArgs.amortization)].month + 1

\* C17: the extended schedule is the source followed by entries whose months run
\* from the last source month + 1 through the target, without gap and without
\* repeating a source month, for sources numbered from 0 and from 1; every
\* appended entry has balance, interestPayment and principalPayment 0 and the
\* source's final totalInterest (0 for an empty source, padded from month 0).
C17_PaddedMonths ==
    Extended =>
        LET src == extendArgs.amortization
            ext == extendedAmortization
            n   == Len(src)
        IN  /\ Len(ext) >= n
            /\ \A k \in 1..n : ext[k] = src[k]
            /\ \A k \in (n + 1)..Len(ext) :
                   /\ ext[k].month = MonthAfterSource + (k - n - 1)
                   /\ ext[k].balance = 0
                   /\ ext[k].interestPayment = 0
                   /\ ext[k].principalPayment = 0
                   /\ ext[k].totalInterest =
                          (IF n = 0 THEN 0 ELSE src[n].totalInterest)
            /\ MonthAfterSource <= extendArgs.targetMonths
                   => ext[Len(ext)].month = extendArgs.targetMonths
            /\ MonthAfterSource > extendArgs.targetMonths => Len(ext) = n
            /\ \A i, j \in 1..Len(ext) : i # j => ext[i].month # ext[j].month

\* a source numbered from 1 with three entries, padded to month 6: the months
\* are 1, 2, 3, 4, 5, 6 and the padding carries the source's final totalInterest
C17_Witness ==
    /\ Extended
    /\ Len(extendArgs.amortization) = 3
    /\ extendArgs.amortization[1].month = 1
    /\ extendArgs.targetMonths = 6
    /\ Len(extendedAmortization) = 6
    /\ extendedAmortization[4].month = 4
    /\ extendedAmortization[6].month = 6
    /\ extendedAmortization[6].totalInterest = 3 * Unit
    /\ extendedAmortization[4].balance = 0

-----------------------------------------------------------------------------
(* performCalculations() *)

OverrideNothing(p, opt) == p

\* params.monthlyPayment = optimal.monthlyPayment; params.expectedRent =
\* optimal.minRent
OverrideParams(p, opt) ==
    [p EXCEPT !.monthlyPayment = opt.monthlyPayment, !.expectedRent = opt.minRent]

\* lines 249-259: read the inputs, in optimization mode replace payment and
\* rent by the optimizer's, and enter calculateAmortization
PerformCalculations ==
    /\ pc = "start"
    /\ IF params.isOptimizationMode
       THEN /\ optimal' = handleOptimization(params)
            /\ params' = OverrideParams(params, optimal')
       ELSE UNCHANGED <<params, optimal>>
    /\ principal' = params'.debtAmount
    /\ monthlyPayment' = params'.monthlyPayment
    /\ annualRate' = params'.interestRate
    /\ balance' = params'.debtAmount
    /\ schedule' = <<>>
    /\ totalInterest' = 0
    /\ month' = 0
    /\ pc' = "amort"
    /\ UNCHANGED <<taxArgs, taxCalc, metricsVars, chartVars>>

\* amortization.map(entry => ({ ...entry, month: entry.month - 1 }))
ShiftAmortization(amort) ==
    [k \in 1..Len(amort) |-> [amort[k] EXCEPT !.month = amort[k].month - 1]]

\* amortization.slice(0, 12).reduce((sum, month) => sum + month.interestPayment, 0)
RECURSIVE FirstYearInterest(_, _)
FirstYearInterest(amort, n) ==
    IF n = 0 THEN 0
    ELSE FirstYearInterest(amort, n - 1)
             + (IF n <= Len(amort) THEN amort[n].interestPayment ELSE 0)

InitialCumulativeZero(p) == 0

\* let cumulativeCashFlow = -equity, with equity = totalInvestment - debtAmount
InitialCumulative(p) == -(p.purchasePrice + p.additionalCosts - p.debtAmount)

\* lines 261-284: shift the schedule to 0-based months, take the year-1 tax
\* snapshot when applyGermanTax, and enter calculateInvestmentMetrics with the
\* shifted schedule (part_002 lines 463-473)
StartMetrics ==
    /\ pc = "amortized"
    /\ IF params.applyGermanTax
       THEN /\ taxArgs' = [buildingValue      |-> params.buildingValue,
                           annualInterest     |-> FirstYearInterest(schedule, 12),
                           annualExpenses     |-> params.annualExpenses,
                           taxRate            |-> params.taxRate,
                           annualRentalIncome |-> params.expectedRent * 12]
            /\ taxCalc' = calculateGermanTaxSavings(taxArgs'.buildingValue,
                              taxArgs'.annualInterest, taxArgs'.annualExpenses,
                              taxArgs'.taxRate, taxArgs'.annualRentalIncome)
       ELSE UNCHANGED <<taxArgs, taxCalc>>
    /\ amortization' = ShiftAmortization(schedule)
    /\ metricsMonth' = 0
    /\ cumulativeCashFlow' = InitialCumulative(params)
    /\ monthlyCashFlowSchedule' = <<>>
    /\ cashFlowSchedule' = <<>>
    /\ pc' = "metrics"
    /\ UNCHANGED <<params, optimal, amortVars, metrics, chartVars>>

-----------------------------------------------------------------------------
(* calculateTaxSavingsByYear(amortization, buildingValue, annualExpenses,
   taxRate, startMonth, startYear, monthlyRent) *)

\* the calendar year of entry i of the schedule
TaxYearOf(amort, i, startMonth, startYear) ==
    YearOfMonth(amort[i].month, startMonth, startYear)

\* the entries the first forEach files under yearlyData[year], as indices
TaxYearEntries(amort, year, startMonth, startYear) ==
    {i \in 1..Len(amort) : TaxYearOf(amort, i, startMonth, startYear) = year}

\* yearlyData[year].interest: the interest of the year's entries, added up
RECURSIVE TaxYearInterest(_, _)
TaxYearInterest(amort, entries) ==
    IF entries = {} THEN 0
    ELSE LET i == CHOOSE j \in entries : TRUE
         IN  amort[i].interestPayment + TaxYearInterest(amort, entries \ {i})

TaxMonthsInYearAssumedTwelve(entries) == 12

\* const monthsInYear = yearData.months.length
TaxMonthsInYear(entries) == Cardinality(entries)

\* the values the second forEach computes for one year, from the year's entries
TaxYearValues(amort, entries, buildingValue, annualExpenses, taxRate, monthlyRent) ==
    LET monthCount         == TaxMonthsInYear(entries)
        actualAnnualRent     == monthlyRent * monthCount
        actualAnnualExpenses == RDiv(annualExpenses * monthCount, 12)
        annualDepreciation   == RDiv(buildingValue * 2 * monthCount, 100 * 12)
        interest             == TaxYearInterest(amort, entries)
        totalDeductible      == annualDepreciation + interest + actualAnnualExpenses
        netRentalResult      == actualAnnualRent - totalDeductible
        taxSavings           == IF netRentalResult < 0
                                THEN RDiv(Abs(netRentalResult) * taxRate, 100)
                                ELSE 0
        isProfit             == netRentalResult > 0
    IN  [savings            |-> taxSavings,
         totalDeductible    |-> totalDeductible,
         annualRentalIncome |-> actualAnnualRent,
         annualDepreciation |-> annualDepreciation,
         annualInterest     |-> interest,
         annualExpenses     |-> actualAnnualExpenses,
         netRentalResult    |-> netRentalResult,
         taxableIncome      |-> IF isProfit THEN netRentalResult ELSE 0,
         deductibleOverflow |-> IF isProfit THEN 0 ELSE Abs(netRentalResult),
         taxReturns         |-> taxSavings]

\* the position in the returned array of the entry pushed for schedule entry i:
\* the years are taken in ascending order (Object.keys(yearlyData).sort()) and
\* the months of a year in the order in which the schedule holds them
TaxEntryPosition(amort, i, startMonth, startYear) ==
    LET year == TaxYearOf(amort, i, startMonth, startYear)
    IN  Cardinality({j \in 1..Len(amort) :
            LET y == TaxYearOf(amort, j, startMonth, startYear)
            IN  y < year \/ (y = year /\ j <= i)})

\* TRUE when no entry lies in an earlier year than an entry before it: the
\* returned array then keeps the order of the schedule
TaxYearsAscending(amort, startMonth, startYear) ==
    \A i \in 1..(Len(amort) - 1) :
        TaxYearOf(amort, i, startMonth, startYear)
            <= TaxYearOf(amort, i + 1, startMonth, startYear)

calculateTaxSavingsByYear(amort, buildingValue, annualExpenses, taxRate, startMonth, startYear, monthlyRent) ==
    LET years == {TaxYearOf(amort, i, startMonth, startYear) : i \in 1..Len(amort)}
        yearlyValues ==
            {[year |-> y,
              values |-> TaxYearValues(amort,
                             TaxYearEntries(amort, y, startMonth, startYear),
                             buildingValue, annualExpenses, taxRate, monthlyRent)] :
                y \in years}
        ValuesOf(y) == (CHOOSE d \in yearlyValues : d.year = y).values
        EntryFor(i) ==
            [month |-> amort[i].month]
                @@ ValuesOf(TaxYearOf(amort, i, startMonth, startYear))
        ascending == TaxYearsAscending(amort, startMonth, startYear)
    IN  [p \in 1..Len(amort) |->
            EntryFor(IF ascending THEN p
                     ELSE CHOOSE i \in 1..Len(amort) :
                              TaxEntryPosition(amort, i, startMonth, startYear) = p)]

\* const extendedAmortization = extendAmortizationSchedule(shiftedAmortization, 480)
CHART_TARGET_MONTHS == 480

\* main.js lines 292-316 and 328: the shifted schedule is extended to 480 for
\* the charts, and updateCharts extends the extended schedule once more before
\* it hands it, with metrics.monthlyCashFlowSchedule, to the aggregator
UpdateCharts ==
    /\ pc = "metricsDone"
    /\ extendArgs' = [amortization |-> amortization,
                      targetMonths |-> CHART_TARGET_MONTHS]
    /\ extendedAmortization' =
           extendAmortizationSchedule(
               extendAmortizationSchedule(amortization, CHART_TARGET_MONTHS),
               CHART_TARGET_MONTHS)
    /\ taxSavingsSchedule' =
           IF params.applyGermanTax
           THEN calculateTaxSavingsByYear(
                    extendAmortizationSchedule(amortization, CHART_TARGET_MONTHS),
                    params.buildingValue, params.annualExpenses, params.taxRate,
                    params.startMonth, params.startYear, params.expectedRent)
           ELSE <<>>
    /\ pc' = "charts"
    /\ UNCHANGED <<params, optimal, taxArgs, taxCalc, amortVars, metricsVars,
                   monthsVars, aggVars, firstResult>>

\* largest debt drawn, in currency units: at one unit a month it takes one
\* month more than the 481 months of the horizon
MaxDebt == 482

\* price, building value and debt, in currency units, the start month, and the
\* target cash flow in currency units: a purchase from own money, a small loan,
\* a loan that outlasts the horizon, and a purchase whose loan covers the price
\* and the additional costs (equity 0)
Financings ==
    {<<700, 480, 0, 0, 0>>, <<700, 480, 90, 5, 0>>, <<700, 480, MaxDebt, 0, 0>>,
     <<40, 30, 90, 11, 2>>}

PipelineParamSet ==
    {[BaseParams EXCEPT !.propertyWorth = f[1] * Unit,
                        !.purchasePrice = f[1] * Unit,
                        !.additionalCosts = 50 * Unit,
                        !.expectedRent = 3 * Unit,
                        !.buildingValue = f[2] * Unit,
                        !.debtAmount = f[3] * Unit, !.startMonth = f[4],
                        !.targetCashFlow = f[5] * Unit,
                        !.monthlyPayment = m,
                        !.interestRate = r, !.applyGermanTax = a,
                        !.isOptimizationMode = o] :
        f \in Financings,
        m \in {Unit, 4 * Unit},
        r \in {0, MaxRate},
        a \in BOOLEAN,
        o \in BOOLEAN}

Init ==
    /\ pc = "start"
    /\ params \in PipelineParamSet
    /\ optimal = None /\ taxArgs = None /\ taxCalc = None
    /\ AmortIdle
    /\ MetricsIdle
    /\ ChartIdle

-----------------------------------------------------------------------------
(* Properties of calculateInvestmentMetrics, checked under Spec *)

MetricsDone == pc = "metricsDone"

\* the month fields of a schedule are 0, 1, ..., 480 in order
MonthsAreZeroTo480(s) ==
    /\ Len(s) = 481
    /\ \A k \in 1..Len(s) : s[k].month = k - 1

\* C10: monthlyCashFlowSchedule and cashFlowSchedule always have exactly 481
\* records with month fields 0, 1, ..., 480 in order, whatever the length of the
\* amortization (0, shorter than 481, longer than 481).
C10_FixedHorizon ==
    MetricsDone =>
        /\ MonthsAreZeroTo480(monthlyCashFlowSchedule)
        /\ MonthsAreZeroTo480(cashFlowSchedule)

\* the metrics of a loan that runs to the 1200-entry ceiling, far beyond the
\* 481-month horizon
C10_Witness ==
    /\ MetricsDone
    /\ Len(amortization) > 481
    /\ Len(monthlyCashFlowSchedule) = 481
    /\ monthlyCashFlowSchedule[481].month = 480
    /\ monthlyCashFlowSchedule[481].mortgagePayment > 0

\* the metrics of a cash purchase (empty amortization) and of a loan paid off
\* within the horizon are reached as well
C10_EmptyAmortizationReached ==
    ~(MetricsDone /\ Len(amortization) = 0)

C10_ShortAmortizationReached ==
    ~(MetricsDone /\ Len(amortization) \in 1..480)

-----------------------------------------------------------------------------
(* aggregateToCalendarYears(monthlyData, startMonth, startYear, initialValues) *)
(* A JavaScript object is a function from its field names; a field that is *)
(* undefined is a name outside the DOMAIN.                                  *)

\* initialValues.f || 0, and initialValues.f !== undefined ? initialValues.f : 0
FieldOr0(r, f) == IF f \in DOMAIN r THEN r[f] ELSE 0

\* the fields of lastState
StateFields == {"balance", "cumulative", "cumulativeIlliquid", "totalCumulative"}

\* the end-of-year fields of a bucket
EndFields == StateFields \cup {"totalInterest"}

\* the bucket's start-of-year field of a state field
StartField ==
    [balance            |-> "balanceStart",
     cumulative         |-> "cumulativeStart",
     cumulativeIlliquid |-> "cumulativeIlliquidStart",
     totalCumulative    |-> "totalCumulativeStart"]

\* the flow fields of a monthly record
FlowFields == {"rentIncome", "mortgagePayment", "taxOnRent", "taxReimbursement",
               "netCashFlow", "interestPayment", "principalPayment"}

\* the bucket's annual sum of a flow field
AnnualField ==
    [rentIncome       |-> "annualRentIncome",
     mortgagePayment  |-> "annualMortgagePayment",
     taxOnRent        |-> "annualTaxOnRent",
     taxReimbursement |-> "annualTaxReimbursement",
     netCashFlow      |-> "annualNetCashFlow",
     interestPayment  |-> "annualInterestPayment",
     principalPayment |-> "annualPrincipalPayment"]

\* the tax savings fields copied to the bucket when the record has them
TaxDataFields == {"annualRentalIncome", "annualDepreciation", "annualInterest",
                  "annualExpenses", "taxableIncome", "deductibleOverflow",
                  "taxReturns", "totalDeductible"}

StartStateFromOwnMonth(monthData, initialValues, last) ==
    [f \in StateFields |-> FieldOr0(monthData, f)]

\* the "Start of Year" values of a new bucket: initialValues for month 0, the
\* running lastState otherwise
StartState(monthData, initialValues, last) ==
    IF monthData.month = 0
    THEN [f \in StateFields |-> FieldOr0(initialValues, f)]
    ELSE last

\* yearlyData[year] = { year, months: [], ... }
NewBucket(year, start) ==
    [year                    |-> year,
     months                  |-> <<>>,
     annualRentIncome        |-> 0,
     annualMortgagePayment   |-> 0,
     annualTaxOnRent         |-> 0,
     annualTaxReimbursement  |-> 0,
     annualNetCashFlow       |-> 0,
     annualInterestPayment   |-> 0,
     annualPrincipalPayment  |-> 0,
     balance                 |-> 0,
     totalInterest           |-> 0,
     cumulative              |-> 0,
     cumulativeIlliquid      |-> 0,
     totalCumulative         |-> 0,
     balanceStart            |-> start.balance,
     cumulativeStart         |-> start.cumulative,
     cumulativeIlliquidStart |-> start.cumulativeIlliquid,
     totalCumulativeStart    |-> start.totalCumulative]

AccumulateOverwrite(sum, monthData, f) ==
    IF f \in DOMAIN monthData THEN monthData[f] ELSE sum

\* if (monthData.f !== undefined) yearEntry.annualF += monthData.f
Accumulate(sum, monthData, f) ==
    IF f \in DOMAIN monthData THEN sum + monthData[f] ELSE sum

\* lines 367-394: push the record to the bucket's months, add its flows, copy
\* its tax savings fields and take its state as the end-of-year state
AddMonth(yearEntry, monthData) ==
    [f \in DOMAIN yearEntry \cup (TaxDataFields \cap DOMAIN monthData) |->
        IF f = "months" THEN Append(yearEntry.months, monthData)
        ELSE IF \E g \in FlowFields : AnnualField[g] = f
        THEN Accumulate(yearEntry[f], monthData,
                        CHOOSE g \in FlowFields : AnnualField[g] = f)
        ELSE IF f \in EndFields \cup TaxDataFields
        THEN (IF f \in DOMAIN monthData THEN monthData[f] ELSE yearEntry[f])
        ELSE yearEntry[f]]

\* one call of the forEach callback: lines 313-401
AggStep ==
    /\ pc = "aggregate"
    /\ aggIndex < Len(monthlyData)
    /\ LET monthData == monthlyData[aggIndex + 1]
           year      == YearOfMonth(monthData.month, aggArgs.startMonth,
                                    aggArgs.startYear)
           yearEntry == IF year \in DOMAIN yearlyData
                        THEN yearlyData[year]
                        ELSE NewBucket(year, StartState(monthData,
                                 aggArgs.initialValues, lastState))
       IN  /\ yearlyData' =
                  [y \in DOMAIN yearlyData \cup {year} |->
                      IF y = year THEN AddMonth(yearEntry, monthData)
                      ELSE yearlyData[y]]
           /\ lastState' =
                  [f \in StateFields |->
                      IF f \in DOMAIN monthData THEN monthData[f]
                      ELSE lastState[f]]
    /\ aggIndex' = aggIndex + 1
    /\ UNCHANGED <<pc, params, optimal, taxArgs, taxCalc, amortVars, metricsVars,
                   extendVars, monthsVars, monthlyData, aggArgs, aggResult,
                   taxSavingsSchedule, firstResult>>

\* Object.values(yearlyData).sort((a, b) => a.year - b.year)
SortByYear(yd) ==
    [i \in 1..Cardinality(DOMAIN yd) |->
        yd[CHOOSE y \in DOMAIN yd :
               Cardinality({z \in DOMAIN yd : z < y}) = i - 1]]

\* the forEach has ended: line 403
AggReturn ==
    /\ pc = "aggregate"
    /\ aggIndex = Len(monthlyData)
    /\ aggResult' = SortByYear(yearlyData)
    /\ pc' = "aggregated"
    /\ UNCHANGED <<params, optimal, taxArgs, taxCalc, amortVars, metricsVars,
                   extendVars, monthsVars, monthlyData, aggArgs, aggIndex,
                   lastState, yearlyData, taxSavingsSchedule, firstResult>>

-----------------------------------------------------------------------------
(* Inputs of aggregateToCalendarYears *)

\* largest month index drawn
MaxAggMonth == 36

\* the balance of the sample loan after month m: paid off after 14 months
SampleBalance(m) == IF m < 14 THEN 1000 - 70 * (m + 1) ELSE 0

SampleInterest(m) == IF m < 14 THEN 14 - m ELSE 0

\* a record shaped like those of monthlyCashFlowSchedule (part_002:519-540)
CashRecord(m) ==
    [month              |-> m,
     rentIncome         |-> 30,
     mortgagePayment    |-> IF m < 14 THEN 84 ELSE 0,
     taxOnRent          |-> m - 5,
     taxReimbursement   |-> IF m < 5 THEN 5 - m ELSE 0,
     netCashFlow        |-> 30 - (IF m < 14 THEN 84 ELSE 0) - (m - 5),
     interestPayment    |-> SampleInterest(m),
     principalPayment   |-> IF m < 14 THEN 70 ELSE 0,
     balance            |-> SampleBalance(m),
     totalInterest      |-> 105 - (SampleInterest(m) * (SampleInterest(m) - 1)) \div 2,
     cumulative         |-> -500 + 37 * (m + 1),
     cumulativeIlliquid |-> 1200 - SampleBalance(m),
     totalCumulative    |-> -500 + 37 * (m + 1) + 1200 - SampleBalance(m)]

\* a record shaped like the entries of the extended amortization
\* (calculations.js:37-44, part_002:424-430): no cumulative fields
AmortRecord(m) ==
    [month            |-> m,
     interestPayment  |-> SampleInterest(m),
     principalPayment |-> IF m < 14 THEN 70 ELSE 0,
     balance          |-> SampleBalance(m),
     totalInterest    |-> 105 - (SampleInterest(m) * (SampleInterest(m) - 1)) \div 2]

\* a record shaped like those of calculateTaxSavingsByYear (part_002:274-287):
\* no state fields and no flow fields
TaxRecord(m) ==
    [month              |-> m,
     savings            |-> 40 + m \div 12,
     totalDeductible    |-> 260 + m \div 12,
     annualRentalIncome |-> 360,
     annualDepreciation |-> 96,
     annualInterest     |-> 150 - m \div 12,
     annualExpenses     |-> 12,
     netRentalResult    |-> 100 - m \div 12,
     taxableIncome      |-> 100 - m \div 12,
     deductibleOverflow |-> 0,
     taxReturns         |-> 40 + m \div 12]

\* ascending month indices: contiguous, with gaps, not starting at 0
MonthLists ==
    {<<>>, <<7>>, <<0, 1, 2>>, <<0, 5, 11, 12, 13>>, <<0, 1, 14, 30>>,
     <<3, 4, 16>>, <<0, 12, 24, MaxAggMonth>>}

\* initialValues: omitted ({}), only the balance, all four (main.js:346-351)
InitialValuesSet ==
    {<<>>,
     [balance |-> 1000],
     [balance |-> 1000, cumulative |-> -500, cumulativeIlliquid |-> 200,
      totalCumulative |-> -300]}

\* the calls of updateCharts: the extended amortization and the monthly cash
\* flow schedule with initialValues (main.js:354, 440), the tax savings
\* schedule without (main.js:582)
AggCalls ==
    {[data |-> [k \in 1..Len(ms) |-> CashRecord(ms[k])], initialValues |-> iv] :
        ms \in MonthLists, iv \in InitialValuesSet}
    \cup
    {[data |-> [k \in 1..Len(ms) |-> AmortRecord(ms[k])], initialValues |-> iv] :
        ms \in MonthLists, iv \in InitialValuesSet}
    \cup
    {[data |-> [k \in 1..Len(ms) |-> TaxRecord(ms[k])], initialValues |-> <<>>] :
        ms \in MonthLists}

KeptYearlyData(previous) == previous

\* const yearlyData = {}: a new object in every call, whatever an earlier call
\* has left in its own
FreshYearlyData(previous) == <<>>

\* entry of aggregateToCalendarYears: lines 302-311
AggEntry(data, startMonth, startYear, initialValues) ==
    /\ monthlyData = data
    /\ aggArgs = [startMonth |-> startMonth, startYear |-> startYear,
                  initialValues |-> initialValues]
    /\ aggIndex = 0
    /\ lastState = [f \in StateFields |-> FieldOr0(initialValues, f)]
    /\ yearlyData = FreshYearlyData(<<>>)
    /\ aggResult = None

\* updateCharts, main.js lines 330-354: the initial values are taken from the
\* inputs and the extended schedule enters aggregateToCalendarYears for the
\* debt chart
AggregateDebtData ==
    /\ pc = "charts"
    /\ LET initialDebt   == params.debtAmount
           initialEquity == params.purchasePrice - params.debtAmount
           initialValues ==
               [balance            |-> initialDebt,
                cumulative         |-> -(params.purchasePrice + params.additionalCosts
                                            - params.debtAmount),
                cumulativeIlliquid |-> initialEquity,
                totalCumulative    |-> -(params.purchasePrice + params.additionalCosts
                                            - params.debtAmount) + initialEquity]
       IN  /\ monthlyData' = extendedAmortization
           /\ aggArgs' = [startMonth    |-> params.startMonth,
                          startYear     |-> params.startYear,
                          initialValues |-> initialValues]
           /\ lastState' = [f \in StateFields |-> FieldOr0(initialValues, f)]
    /\ aggIndex' = 0
    /\ yearlyData' = FreshYearlyData(<<>>)
    /\ aggResult' = None
    /\ pc' = "aggregate"
    /\ UNCHANGED <<params, optimal, taxArgs, taxCalc, amortVars, metricsVars,
                   extendVars, monthsVars, taxSavingsSchedule, firstResult>>

\* performCalculations, up to the entry of the first aggregation
Next ==
    \/ PerformCalculations
    \/ AmortStep
    \/ AmortReturn
    \/ StartMetrics
    \/ MetricsStep
    \/ MetricsReturn
    \/ UpdateCharts
    \/ AggregateDebtData

Spec == Init /\ [][Next]_vars

InitAgg ==
    /\ pc = "aggregate"
    /\ params = None /\ optimal = None /\ taxArgs = None /\ taxCalc = None
    /\ AmortIdle
    /\ MetricsIdle
    /\ extendArgs = None /\ extendedAmortization = None
    /\ monthsArgs = None /\ monthsInYear = None
    /\ taxSavingsSchedule = None /\ firstResult = None
    /\ \E call \in AggCalls, sm \in {0, 6, 11} :
           AggEntry(call.data, sm, 2024, call.initialValues)

NextAgg == AggStep \/ AggReturn

SpecAgg == InitAgg /\ [][NextAgg]_vars

-----------------------------------------------------------------------------
(* Two calls with the same arguments: extendAmortizationSchedule,           *)
(* aggregateToCalendarYears and calculateInvestmentMetrics are each called, *)
(* and once they have returned called again with the arguments of the first *)
(* call.                                                                    *)

\* extendAmortizationSchedule(amortization, targetMonths), the second time
ExtendAgain ==
    /\ pc = "extended" /\ firstResult = None
    /\ firstResult' = [value |-> extendedAmortization]
    /\ extendedAmortization' =
           extendAmortizationSchedule(extendArgs.amortization,
                                      extendArgs.targetMonths)
    /\ UNCHANGED <<pc, params, optimal, taxArgs, taxCalc, amortVars, metricsVars,
                   extendArgs, monthsVars, aggVars, taxSavingsSchedule>>

\* aggregateToCalendarYears(monthlyData, startMonth, startYear, initialValues),
\* the second time: lines 302-311
AggAgain ==
    /\ pc = "aggregated" /\ firstResult = None
    /\ firstResult' = [value |-> aggResult]
    /\ aggIndex' = 0
    /\ lastState' = [f \in StateFields |-> FieldOr0(aggArgs.initialValues, f)]
    /\ yearlyData' = FreshYearlyData(yearlyData)
    /\ aggResult' = None
    /\ pc' = "aggregate"
    /\ UNCHANGED <<params, optimal, taxArgs, taxCalc, amortVars, metricsVars,
                   extendVars, monthsVars, monthlyData, aggArgs,
                   taxSavingsSchedule>>

\* calculateInvestmentMetrics(params, shiftedAmortization, getMonthsInYear),
\* the second time: part_002 lines 463-473
MetricsAgain ==
    /\ pc = "metricsDone" /\ firstResult = None
    /\ firstResult' = [value |-> [metrics                 |-> metrics,
                                 monthlyCashFlowSchedule |-> monthlyCashFlowSchedule,
                                 cashFlowSchedule        |-> cashFlowSchedule]]
    /\ metricsMonth' = 0
    /\ cumulativeCashFlow' = InitialCumulative(params)
    /\ monthlyCashFlowSchedule' = <<>>
    /\ cashFlowSchedule' = <<>>
    /\ metrics' = None
    /\ pc' = "metrics"
    /\ UNCHANGED <<params, optimal, taxArgs, taxCalc, amortVars, amortization,
                   extendVars, monthsVars, aggVars, taxSavingsSchedule>>

\* the loans whose metrics are computed twice
TwiceParamSet ==
    {p \in PipelineParamSet :
        /\ p.purchasePrice = 40 * Unit /\ p.monthlyPayment = 4 * Unit
        /\ ~p.isOptimizationMode}

InitTwice ==
    \/ InitExtend
    \/ InitAgg
    \/ Init /\ params \in TwiceParamSet

NextTwice ==
    \/ ExtendCall
    \/ ExtendAgain
    \/ AggStep
    \/ AggReturn
    \/ AggAgain
    \/ PerformCalculations
    \/ AmortStep
    \/ AmortReturn
    \/ StartMetrics
    \/ MetricsStep
    \/ MetricsReturn
    \/ MetricsAgain

SpecTwice == InitTwice /\ [][NextTwice]_vars

-----------------------------------------------------------------------------
(* Properties of aggregateToCalendarYears, checked under SpecAgg *)

Aggregated == pc = "aggregated"

\* the number of input records that lie in the buckets before bucket j
RecordsBefore(j) ==
    Cardinality({i \in 1..Len(monthlyData) :
        \E b \in 1..(j - 1) :
            \E n \in 1..Len(aggResult[b].months) :
                aggResult[b].months[n].month = monthlyData[i].month})

\* the value of state field f in the last of the first n input records that
\* carries the field; the initial value (0 when omitted) when none does
LastSeen(f, n) ==
    LET carriers == {i \in 1..n : f \in DOMAIN monthlyData[i]}
    IN  IF carriers = {}
        THEN FieldOr0(aggArgs.initialValues, f)
        ELSE monthlyData[CHOOSE i \in carriers : \A j \in carriers : j <= i][f]

\* C14 as stated: the first bucket of a series that starts at month 0 gets the
\* initialValues (0 for an omitted field), and every later bucket's start value
\* of each of the four state fields is the previous bucket's end-of-year value.
C14_StartIsPreviousEnd ==
    Aggregated =>
        /\ (Len(aggResult) >= 1 /\ monthlyData[1].month = 0)
            => \A f \in StateFields :
                   aggResult[1][StartField[f]] = FieldOr0(aggArgs.initialValues, f)
        /\ \A j \in 2..Len(aggResult) : \A f \in StateFields :
               aggResult[j][StartField[f]] = aggResult[j - 1][f]

\* C14 amended: the first bucket gets the initialValues (0 for an omitted
\* field); a later bucket's start value of a state field is the value of that
\* field in the last record processed before the bucket that carries the field,
\* which is the previous bucket's end-of-year value when the records carry the
\* field, and stays the initial value while no record has carried it (the
\* end-of-year value of such a field is 0).  Gaps in the month indices change
\* nothing.
C14_StartIsLastSeen ==
    Aggregated =>
        /\ Len(aggResult) >= 1
            => \A f \in StateFields :
                   aggResult[1][StartField[f]] = FieldOr0(aggArgs.initialValues, f)
        /\ \A j \in 2..Len(aggResult) : \A f \in StateFields :
               /\ aggResult[j][StartField[f]] = LastSeen(f, RecordsBefore(j))
               /\ (\E n \in 1..Len(aggResult[j - 1].months) :
                       f \in DOMAIN aggResult[j - 1].months[n])
                   => aggResult[j][StartField[f]] = aggResult[j - 1][f]
               /\ (\A i \in 1..RecordsBefore(j) : f \notin DOMAIN monthlyData[i])
                   => /\ aggResult[j][StartField[f]]
                             = FieldOr0(aggArgs.initialValues, f)
                      /\ aggResult[j - 1][f] = 0

\* months 0, 1, 14, 30 from a July start: the second year starts with the first
\* year's last balance, not 0 and not the balance of its own first month
C14_Witness ==
    /\ Aggregated /\ Len(aggResult) = 3
    /\ aggArgs.startMonth = 6
    /\ Len(aggResult[1].months) = 2
    /\ aggResult[2].months[1].month = 14
    /\ aggResult[2].balanceStart = aggResult[1].balance
    /\ aggResult[2].balanceStart = SampleBalance(1)
    /\ aggResult[2].balanceStart # 0
    /\ aggResult[2].balanceStart # aggResult[2].months[1].balance
    /\ aggResult[1].balanceStart = 1000

\* the calendar year of an input record: startYear + floor((startMonth + month) / 12)
RecordYear(r) == aggArgs.startYear + ((aggArgs.startMonth + r.month) \div 12)

\* the sum of field f over the input records at the positions in idx
RECURSIVE SumField(_, _)
SumField(f, idx) ==
    IF idx = {} THEN 0
    ELSE LET i == CHOOSE i \in idx : TRUE
         IN  FieldOr0(monthlyData[i], f) + SumField(f, idx \ {i})

\* the sum of the bucket field f over the first n buckets
RECURSIVE SumBuckets(_, _)
SumBuckets(f, n) ==
    IF n = 0 THEN 0 ELSE aggResult[n][f] + SumBuckets(f, n - 1)

\* C15: for every bucket and every flow field the bucket's annual sum is the sum
\* of the field over exactly the input records whose calendar year is the
\* bucket's year, so the sum over all buckets is the sum over all records.
C15_AnnualSums ==
    Aggregated =>
        \A f \in FlowFields :
            /\ \A j \in 1..Len(aggResult) :
                   aggResult[j][AnnualField[f]] =
                       SumField(f, {i \in 1..Len(monthlyData) :
                                       RecordYear(monthlyData[i]) = aggResult[j].year})
            /\ SumBuckets(AnnualField[f], Len(aggResult))
                   = SumField(f, 1..Len(monthlyData))

\* months 0, 5, 11, 12, 13 from a January start: the first year sums three
\* records, the second two
C15_Witness ==
    /\ Aggregated /\ Len(aggResult) = 2
    /\ aggArgs.startMonth = 0
    /\ Len(aggResult[1].months) = 3 /\ Len(aggResult[2].months) = 2
    /\ aggResult[1].annualRentIncome = 90
    /\ aggResult[2].annualRentIncome = 60
    /\ aggResult[1].annualInterestPayment
           = SampleInterest(0) + SampleInterest(5) + SampleInterest(11)
    /\ aggResult[1].annualTaxOnRent = (0 - 5) + (5 - 5) + (11 - 5)

\* C16: there is exactly one bucket per distinct calendar year of the input, in
\* strictly ascending year order, where a record's year is startYear +
\* floor((startMonth + month) / 12); the months list of a bucket holds exactly the
\* records of its year, so each record is in exactly one bucket and a year with
\* no record has no bucket.
C16_OneBucketPerYear ==
    Aggregated =>
        /\ {aggResult[j].year : j \in 1..Len(aggResult)}
               = {RecordYear(monthlyData[i]) : i \in 1..Len(monthlyData)}
        /\ \A j \in 1..(Len(aggResult) - 1) :
               aggResult[j].year < aggResult[j + 1].year
        /\ \A j \in 1..Len(aggResult) :
               LET InYear(r) == RecordYear(r) = aggResult[j].year
               IN  aggResult[j].months = SelectSeq(monthlyData, InYear)

\* months 0, 1, 14, 30 from a December start: 2024 holds month 0, 2025 month 1,
\* 2026 month 14 (February 2026), 2027 month 30 (June 2027)
C16_Witness ==
    /\ Aggregated /\ aggArgs.startMonth = 11 /\ Len(monthlyData) = 4
    /\ Len(aggResult) = 4
    /\ aggResult[1].year = 2024 /\ Len(aggResult[1].months) = 1
    /\ aggResult[2].year = 2025 /\ aggResult[2].months[1].month = 1
    /\ aggResult[3].year = 2026 /\ aggResult[3].months[1].month = 14
    /\ aggResult[4].year = 2027 /\ aggResult[4].months[1].month = 30

-----------------------------------------------------------------------------
(* Properties of the monthly records, checked under Spec *)

\* calculateInvestmentMetrics is running or has returned
InMetrics == pc \in {"metrics", "metricsDone"}

\* record k of monthlyCashFlowSchedule (month k - 1) against the amortization
\* entry at the same position
FollowsAmortization(k) ==
    LET r == monthlyCashFlowSchedule[k]
    IN  IF k - 1 < Len(amortization)
        THEN r.mortgagePayment = amortization[k].payment
        ELSE r.mortgagePayment = 0 /\ r.interestPayment = 0 /\ r.balance = 0

\* C11: for every month m in 0..480, a record below the amortization length has
\* the payment field of the amortization entry at position m as its
\* mortgagePayment (a partial final payment included); a record at or beyond
\* the amortization length has mortgagePayment, interest and balance 0.
C11_PaymentFromEntry ==
    InMetrics =>
        /\ Len(monthlyCashFlowSchedule) > 0
            => FollowsAmortization(Len(monthlyCashFlowSchedule))
        /\ MetricsDone
            => \A k \in 1..Len(monthlyCashFlowSchedule) : FollowsAmortization(k)

\* the month after a partial final payment: the payoff month paid less than the
\* nominal payment, the month after it pays nothing
C11_Witness ==
    /\ pc = "metrics"
    /\ Len(amortization) >= 2
    /\ Len(monthlyCashFlowSchedule) = Len(amortization) + 1
    /\ LET payoff == monthlyCashFlowSchedule[Len(amortization)]
           after  == monthlyCashFlowSchedule[Len(amortization) + 1]
       IN  /\ payoff.mortgagePayment > 0
           /\ payoff.mortgagePayment < params.monthlyPayment
           /\ payoff.mortgagePayment = amortization[Len(amortization)].payment
           /\ after.mortgagePayment = 0 /\ after.balance = 0

\* the first 0-based index of cashFlowSchedule whose totalCumulative is >= 0,
\* -1 when there is none
FirstTotalBreakEven ==
    LET hits == {k \in 1..Len(cashFlowSchedule) :
                    cashFlowSchedule[k].totalCumulative >= 0}
    IN  IF hits = {} THEN -1
        ELSE (CHOOSE k \in hits : \A j \in hits : k <= j) - 1

\* C12: breakEvenYears is k/12 for the first month index k whose totalCumulative
\* (liquid + illiquid) is >= 0, and 0 when no month in 0..480 reaches that
\* (breakEvenYears is held as its number of months).
C12_BreakEvenOnTotal ==
    MetricsDone =>
        metrics.breakEvenYears =
            (IF FirstTotalBreakEven >= 0 THEN FirstTotalBreakEven ELSE 0)

\* record k of both schedules: the illiquid cumulative is the purchase price
\* minus the balance of that month, and the total is liquid plus illiquid
EquityOk(k) ==
    LET r == monthlyCashFlowSchedule[k]
        c == cashFlowSchedule[k]
    IN  /\ r.cumulativeIlliquid =
               (params.purchasePrice - params.debtAmount)
                   + (params.debtAmount - r.balance)
        /\ r.cumulativeIlliquid = params.purchasePrice - r.balance
        /\ r.totalCumulative = r.cumulative + r.cumulativeIlliquid
        /\ c.cumulativeIlliquid = r.cumulativeIlliquid
        /\ c.totalCumulative = c.cumulative + c.cumulativeIlliquid

\* C13: every record's cumulativeIlliquid is (purchasePrice - debtAmount) +
\* (debtAmount - balance of that month), the purchase price minus the current
\* balance, whatever additionalCosts is, and totalCumulative = cumulative +
\* cumulativeIlliquid.
C13_IlliquidIsPriceMinusBalance ==
    InMetrics =>
        /\ Len(monthlyCashFlowSchedule) = Len(cashFlowSchedule)
        /\ Len(monthlyCashFlowSchedule) > 0
            => EquityOk(Len(monthlyCashFlowSchedule))
        /\ MetricsDone
            => \A k \in 1..Len(monthlyCashFlowSchedule) : EquityOk(k)

\* a month in which part of the debt is repaid, with additional costs paid at
\* purchase: the equity lies between purchasePrice - debtAmount and purchasePrice
C13_Witness ==
    /\ pc = "metrics"
    /\ params.additionalCosts > 0
    /\ Len(monthlyCashFlowSchedule) >= 2
    /\ LET r == monthlyCashFlowSchedule[Len(monthlyCashFlowSchedule)]
       IN  /\ r.balance > 0 /\ r.balance < params.debtAmount
           /\ r.cumulativeIlliquid > params.purchasePrice - params.debtAmount
           /\ r.cumulativeIlliquid < params.purchasePrice
           /\ r.totalCumulative # r.cumulative

\* the deductibles of the month of record r: buildingValue * 0.02 / 12 + that
\* month's interest + annualExpenses / 12
MonthDeductibles(r) ==
    RDiv(params.buildingValue * 2, 100 * 12) + r.interestPayment
        + RDiv(params.annualExpenses, 12)

\* record k is a month in which the rent covers the deductibles
ProfitMonth(k) ==
    params.expectedRent >= MonthDeductibles(monthlyCashFlowSchedule[k])

\* record k has no tax term
NoTaxTerm(k) ==
    LET r == monthlyCashFlowSchedule[k]
    IN  r.taxOnRent = 0 /\ r.netCashFlow = r.rentIncome - r.mortgagePayment

\* C20 as stated: with applyGermanTax the tax term follows the Tax Model on the
\* monthly values, so in every month whose rent is at least the month's
\* deductibles the tax term is 0 and netCashFlow = rent - payment.
C20_ProfitNeverTaxed ==
    (InMetrics /\ params.applyGermanTax) =>
        /\ (Len(monthlyCashFlowSchedule) > 0
                /\ ProfitMonth(Len(monthlyCashFlowSchedule)))
            => NoTaxTerm(Len(monthlyCashFlowSchedule))
        /\ MetricsDone
            => \A k \in 1..Len(monthlyCashFlowSchedule) :
                   ProfitMonth(k) => NoTaxTerm(k)

\* record k against the tax of its month: a loss gives the Tax Model's saving
\* as a negative tax, a profit is taxed at the same rate
TaxTermOk(k) ==
    LET r   == monthlyCashFlowSchedule[k]
        net == params.expectedRent - MonthDeductibles(r)
    IN  /\ r.netCashFlow = r.rentIncome - r.mortgagePayment - r.taxOnRent
        /\ net < 0
            => /\ r.taxOnRent <= 0
               /\ Abs((-r.taxOnRent) - TaxSavings(net, params.taxRate)) <= 1
               /\ r.taxReimbursement = -r.taxOnRent
        /\ net >= 0
            => /\ r.taxOnRent >= 0
               /\ r.taxOnRent = RDiv(net * params.taxRate, 100)
               /\ r.taxReimbursement = 0
               /\ (net >= Unit /\ params.taxRate > 0) => r.taxOnRent > 0

\* C20 amended: with applyGermanTax the tax term of every month is
\* (expectedRent - deductibles of the month) * taxRate / 100.  In a loss month
\* it is negative, minus the Tax Model's saving on the monthly values, and is
\* reported as taxReimbursement; in a month whose rent is at least the
\* deductibles it is that profit times the tax rate, not 0, and taxReimbursement
\* is 0.  In both netCashFlow = rent - payment - taxOnRent.
C20_ProfitTaxedLossReimbursed ==
    (InMetrics /\ params.applyGermanTax) =>
        /\ Len(monthlyCashFlowSchedule) > 0
            => TaxTermOk(Len(monthlyCashFlowSchedule))
        /\ MetricsDone
            => \A k \in 1..Len(monthlyCashFlowSchedule) : TaxTermOk(k)

\* a loan whose first month is a loss and whose months after payoff are a
\* profit: the first record has a reimbursement, the newest a tax
C20_Witness ==
    /\ pc = "metrics" /\ params.applyGermanTax /\ params.taxRate > 0
    /\ Len(monthlyCashFlowSchedule) > Len(amortization)
    /\ Len(amortization) > 0
    /\ monthlyCashFlowSchedule[1].taxOnRent < 0
    /\ monthlyCashFlowSchedule[1].taxReimbursement > 0
    /\ LET r == monthlyCashFlowSchedule[Len(monthlyCashFlowSchedule)]
       IN  /\ r.taxOnRent > 0
           /\ r.taxReimbursement = 0
           /\ r.netCashFlow = r.rentIncome - r.taxOnRent

\* the schedules are handed to the aggregator
ChartsDrawn == pc = "charts"

\* C19: the extended amortization and the monthly cash-flow schedule handed to
\* the aggregator both have the months 0, 1, ..., 480 exactly: starting at 0,
\* contiguous, without duplicates, and the same months in both, for every loan,
\* also one that takes more than 481 months or hits the 1200 ceiling.
C19_SameMonthsZeroTo480 ==
    ChartsDrawn =>
        /\ MonthsAreZeroTo480(extendedAmortization)
        /\ MonthsAreZeroTo480(monthlyCashFlowSchedule)
        /\ {extendedAmortization[k].month : k \in 1..Len(extendedAmortization)}
               = {monthlyCashFlowSchedule[k].month :
                      k \in 1..Len(monthlyCashFlowSchedule)}

\* Math.max(0, x)
MaxZero(x) == IF x > 0 THEN x ELSE 0

\* record k: taxOnRent is the month's net rental result times taxRate / 100
\* (to the nearest mill), the net cash flow subtracts it, and a negative tax is
\* the reimbursement
TaxFormulaOk(k) ==
    LET r   == monthlyCashFlowSchedule[k]
        net == r.rentIncome - MonthDeductibles(r)
    IN  /\ r.rentIncome = params.expectedRent
        /\ r.netCashFlow = r.rentIncome - r.mortgagePayment - r.taxOnRent
        /\ r.taxReimbursement = MaxZero(-r.taxOnRent)
        /\ params.applyGermanTax
            => /\ 2 * Abs(100 * r.taxOnRent - net * params.taxRate) <= 100
               /\ net * params.taxRate >= 100 => r.taxOnRent > 0
               /\ net * params.taxRate <= -100 => r.taxOnRent < 0
        /\ ~params.applyGermanTax
            => /\ r.taxOnRent = 0
               /\ r.netCashFlow = r.rentIncome - r.mortgagePayment

\* C21: with applyGermanTax every month's taxOnRent is (expectedRent -
\* (buildingValue * 0.02 / 12 + the month's interestPayment + annualExpenses /
\* 12)) * taxRate / 100, positive on a profit and negative on a loss, netCashFlow
\* = rentIncome - mortgagePayment - taxOnRent and taxReimbursement = max(0,
\* -taxOnRent); without applyGermanTax taxOnRent is 0 and netCashFlow =
\* rentIncome - mortgagePayment.
C21_TaxOnRentFormula ==
    InMetrics =>
        /\ Len(monthlyCashFlowSchedule) > 0
            => TaxFormulaOk(Len(monthlyCashFlowSchedule))
        /\ MetricsDone
            => \A k \in 1..Len(monthlyCashFlowSchedule) : TaxFormulaOk(k)

\* the first month of a loan at interest with applyGermanTax: the interest makes
\* the month a loss, the tax is negative and is reported as reimbursement
C21_Witness ==
    /\ pc = "metrics" /\ params.applyGermanTax
    /\ Len(monthlyCashFlowSchedule) = 1
    /\ LET r == monthlyCashFlowSchedule[1]
       IN  /\ r.interestPayment > 0
           /\ r.mortgagePayment > 0
           /\ r.taxOnRent < 0
           /\ r.taxReimbursement = -r.taxOnRent
           /\ r.netCashFlow = r.rentIncome - r.mortgagePayment + r.taxReimbursement

\* purchasePrice + additionalCosts - debtAmount
Equity == params.purchasePrice + params.additionalCosts - params.debtAmount

\* record k (month k - 1) continues the running sum of the net cash flows
RunningSumOk(k) ==
    LET r == monthlyCashFlowSchedule[k]
    IN  /\ r.month = k - 1
        /\ r.cumulative = (IF k = 1 THEN -Equity
                           ELSE monthlyCashFlowSchedule[k - 1].cumulative)
                          + r.netCashFlow
        /\ cashFlowSchedule[k].cumulative = r.cumulative

\* C22: the liquid cumulative is a running sum seeded with -equity, equity =
\* purchasePrice + additionalCosts - debtAmount: record 0 has cumulative =
\* -equity + netCashFlow(0) and every later record m has cumulative(m) =
\* cumulative(m - 1) + netCashFlow(m), up to month 480.
C22_CumulativeIsRunningSum ==
    InMetrics =>
        /\ Len(cashFlowSchedule) = Len(monthlyCashFlowSchedule)
        /\ Len(monthlyCashFlowSchedule) > 0
            => RunningSumOk(Len(monthlyCashFlowSchedule))
        /\ MetricsDone
            => /\ Len(monthlyCashFlowSchedule) = METRICS_MAX_MONTHS + 1
               /\ \A k \in 1..Len(monthlyCashFlowSchedule) : RunningSumOk(k)

\* two months accumulated on a positive equity, each with a non-zero net cash
\* flow
C22_Witness ==
    /\ pc = "metrics" /\ Equity > 0
    /\ Len(monthlyCashFlowSchedule) = 2
    /\ monthlyCashFlowSchedule[1].netCashFlow # 0
    /\ monthlyCashFlowSchedule[2].netCashFlow # 0
    /\ monthlyCashFlowSchedule[2].cumulative =
           -Equity + monthlyCashFlowSchedule[1].netCashFlow
                   + monthlyCashFlowSchedule[2].netCashFlow

\* the lowest liquid cumulative of the finished schedule and the 0-based month
\* at which it is first reached
LowestCumulative == MinCumulative(cashFlowSchedule)

FirstLowestMonth ==
    (CHOOSE k \in 1..Len(cashFlowSchedule) :
        /\ cashFlowSchedule[k].cumulative = LowestCumulative
        /\ \A j \in 1..(k - 1) : cashFlowSchedule[j].cumulative # LowestCumulative) - 1

TaxEntryYear(p) ==
    YearOfMonth(taxSavingsSchedule[p].month, params.startMonth, params.startYear)

EntriesOfYear(y) == {p \in 1..Len(taxSavingsSchedule) : TaxEntryYear(p) = y}

\* every entry of the calendar year y is pro-rated by the number n of entries
\* of that year, and all of them carry the same savings
ProRatedYear(y) ==
    LET entries == EntriesOfYear(y)
        n       == Cardinality(entries)
        first   == CHOOSE p \in entries : TRUE
    IN  /\ n <= 12
        /\ \A p \in entries :
               LET e == taxSavingsSchedule[p]
               IN  /\ e.annualRentalIncome = params.expectedRent * n
                   /\ 2 * Abs(100 * 12 * e.annualDepreciation
                                  - params.buildingValue * 2 * n) <= 100 * 12
                   /\ 2 * Abs(12 * e.annualExpenses - params.annualExpenses * n) <= 12
                   /\ e.savings = taxSavingsSchedule[first].savings

\* the entries of the tax savings schedule are those of the extended schedule,
\* and every calendar year is pro-rated by its own number of months
ProRatedSchedule ==
    /\ Len(taxSavingsSchedule) = Len(extendedAmortization)
    /\ \A p \in 1..Len(taxSavingsSchedule) :
           taxSavingsSchedule[p].month = extendedAmortization[p].month
    /\ \A y \in {TaxEntryYear(p) : p \in 1..Len(taxSavingsSchedule)} :
           ProRatedYear(y)

\* C24: calculateTaxSavingsByYear pro-rates by the number n of schedule months
\* that fall in each calendar year: every entry of the year carries
\* annualRentalIncome = monthlyRent * n, annualDepreciation = buildingValue *
\* 0.02 * n / 12, annualExpenses = annualExpenses * n / 12 and the same savings;
\* for the shifted and extended schedule of the pipeline n never exceeds 12, so
\* annualRentalIncome never exceeds 12 * monthlyRent.
C24_ProRatedByMonthsInYear ==
    (ChartsDrawn /\ params.applyGermanTax) =>
        /\ ProRatedSchedule
        /\ \A p \in 1..Len(taxSavingsSchedule) :
               taxSavingsSchedule[p].annualRentalIncome <= 12 * params.expectedRent

\* C24, amended: as above, with annualRentalIncome never above 12 * monthlyRent
\* for a monthlyRent that is not negative, and never below 12 * monthlyRent for
\* a negative one.
C24_ProRatedWithinTwelveRents ==
    (ChartsDrawn /\ params.applyGermanTax) =>
        /\ ProRatedSchedule
        /\ \A p \in 1..Len(taxSavingsSchedule) :
               LET e == taxSavingsSchedule[p]
               IN  IF params.expectedRent >= 0
                   THEN e.annualRentalIncome <= 12 * params.expectedRent
                   ELSE e.annualRentalIncome >= 12 * params.expectedRent

\* a purchase in June: the first calendar year holds seven months and is
\* pro-rated by 7, the second holds twelve
C24_Witness ==
    /\ ChartsDrawn /\ params.applyGermanTax /\ params.startMonth = 5
    /\ params.expectedRent > 0
    /\ Cardinality(EntriesOfYear(params.startYear)) = 7
    /\ Cardinality(EntriesOfYear(params.startYear + 1)) = 12
    /\ taxSavingsSchedule[1].annualRentalIncome = 7 * params.expectedRent
    /\ taxSavingsSchedule[8].annualRentalIncome = 12 * params.expectedRent
    /\ taxSavingsSchedule[1].annualDepreciation > 0
    /\ taxSavingsSchedule[1].annualDepreciation
           < taxSavingsSchedule[8].annualDepreciation

\* the stages of performCalculations in their order; the aggregation is the
\* last one
StageOf(p) ==
    CASE p = "start" -> 0
      [] p \in {"amort", "amortized"} -> 1
      [] p \in {"metrics", "metricsDone"} -> 2
      [] p = "charts" -> 3
      [] p = "aggregate" -> 4

\* what the stages work with once the inputs are read: in optimization mode the
\* optimizer's payment and rent, otherwise no optimizer result at all
UsesOptimizerValues ==
    pc # "start" =>
        /\ IF params.isOptimizationMode
           THEN /\ optimal = handleOptimization(params)
                /\ params.monthlyPayment = optimal.monthlyPayment
                /\ params.expectedRent = optimal.minRent
           ELSE optimal = None
        /\ monthlyPayment = params.monthlyPayment
        /\ principal = params.debtAmount
        /\ Len(monthlyCashFlowSchedule) > 0
            => monthlyCashFlowSchedule[Len(monthlyCashFlowSchedule)].rentIncome
                   = params.expectedRent
        /\ StageOf(pc) >= 2 /\ pc # "metrics"
            => /\ metrics.usedRent = params.expectedRent
               /\ metrics.usedMonthlyPayment = params.monthlyPayment

\* a step moves to the next stage or stays in its stage; the optimizer acts in
\* the first step only, before any entry of the schedule exists, and only in
\* optimization mode; the output of a stage exists before the next one starts
StagesInOrder ==
    /\ StageOf(pc') \in {StageOf(pc), StageOf(pc) + 1}
    /\ (optimal' # optimal \/ params' # params)
           => /\ pc = "start" /\ params.isOptimizationMode
              /\ schedule = <<>> /\ schedule' = <<>>
    /\ StageOf(pc') = 2 /\ StageOf(pc) = 1
           => pc = "amortized" /\ amortization' = ShiftAmortization(schedule)
    /\ StageOf(pc') = 3 /\ StageOf(pc) = 2
           => pc = "metricsDone" /\ Len(extendedAmortization') > CHART_TARGET_MONTHS
    /\ StageOf(pc') = 4 /\ StageOf(pc) = 3
           => /\ Len(extendedAmortization) > CHART_TARGET_MONTHS
              /\ monthlyData' = extendedAmortization

\* C25: in optimization mode the optimizer runs first and its monthlyPayment
\* and minRent replace params.monthlyPayment and params.expectedRent before
\* the amortization is generated, so the amortization, the metrics and the
\* displayed rent and payment use the optimizer's values; out of optimization
\* mode the optimizer's result never influences them.  The stages always come
\* in the order amortization, metrics, extension, aggregation.
C25_OptimizerFirstStagesInOrder ==
    /\ [](UsesOptimizerValues)
    /\ [][StagesInOrder]_vars

\* an optimization run whose optimizer values differ from the typed ones has
\* reached the aggregation with the optimizer's rent and payment on display
C25_Witness ==
    /\ pc = "aggregate" /\ params.isOptimizationMode
    /\ optimal # None
    /\ optimal.monthlyPayment \notin {Unit, 4 * Unit}
    /\ optimal.minRent # 3 * Unit
    /\ metrics.usedRent = optimal.minRent
    /\ metrics.usedMonthlyPayment = optimal.monthlyPayment
    /\ Len(schedule) > 0 /\ schedule[1].payment = optimal.monthlyPayment

\* the arguments of a call are what they were when it was entered: no step
\* changes the schedule, the records or the parameters a function is working on
ArgumentsKept ==
    /\ pc \in {"extend", "extended"} => extendArgs' = extendArgs
    /\ pc \in {"aggregate", "aggregated"}
           => monthlyData' = monthlyData /\ aggArgs' = aggArgs
    /\ pc \in {"metrics", "metricsDone"}
           => amortization' = amortization /\ params' = params

\* what a call has returned: a new array that leaves the argument as it was
\* (the extension starts with the entries of its argument, whose length is
\* unchanged), and, the second time, the same as the first time
ResultsRepeat ==
    /\ pc = "extended"
           => /\ Len(extendedAmortization) >= Len(extendArgs.amortization)
              /\ \A k \in 1..Len(extendArgs.amortization) :
                     extendedAmortization[k] = extendArgs.amortization[k]
              /\ firstResult # None => extendedAmortization = firstResult.value
    /\ (pc = "aggregated" /\ firstResult # None) => aggResult = firstResult.value
    /\ (pc = "metricsDone" /\ firstResult # None)
           => /\ metrics = firstResult.value.metrics
              /\ monthlyCashFlowSchedule = firstResult.value.monthlyCashFlowSchedule
              /\ cashFlowSchedule = firstResult.value.cashFlowSchedule

-----------------------------------------------------------------------------
(* Conservation in calculateAmortization, checked under SpecAmort *)

\* the sum of the principal payments of the entries lo..hi, by halves
RECURSIVE PrincipalPaid(_, _)
PrincipalPaid(lo, hi) ==
    IF lo > hi THEN 0
    ELSE IF lo = hi THEN schedule[lo].principalPayment
    ELSE LET mid == (lo + hi) \div 2
         IN  PrincipalPaid(lo, mid) + PrincipalPaid(mid + 1, hi)

\* the sum of the interest payments of the entries lo..hi, by halves
RECURSIVE InterestPaid(_, _)
InterestPaid(lo, hi) ==
    IF lo > hi THEN 0
    ELSE IF lo = hi THEN schedule[lo].interestPayment
    ELSE LET mid == (lo + hi) \div 2
         IN  InterestPaid(lo, mid) + InterestPaid(mid + 1, hi)

\* entry k: the balance and the principal paid so far make up the principal,
\* totalInterest is the interest paid so far, the payment is principal plus
\* interest and stays within monthlyPayment when that covers the interest
Conserved(k) ==
    LET e == schedule[k]
    IN  /\ e.balance + PrincipalPaid(1, k) = principal
        /\ e.totalInterest = InterestPaid(1, k)
        /\ e.payment = e.principalPayment + e.interestPayment
        /\ monthlyPayment >= e.interestPayment => e.payment <= monthlyPayment

\* C27: in every schedule of calculateAmortization(P, M, R), for every entry k,
\* balance_k plus the principal payments of entries 1..k is P, totalInterest_k
\* is the sum of the interest payments of entries 1..k, and payment_k =
\* principalPayment_k + interestPayment_k, with payment_k <= M whenever M is at
\* least that month's interest.
C27_PrincipalConserved ==
    Len(schedule) > 0 => Conserved(Len(schedule))

\* a loan at interest after several payments, the last one a partial payment
C27_Witness ==
    /\ Returned /\ Len(schedule) >= 3 /\ annualRate > 0
    /\ Last.interestPayment > 0
    /\ Last.payment < monthlyPayment
    /\ Last.balance = 0
    /\ PrincipalPaid(1, Len(schedule)) = principal
    /\ Last.totalInterest = InterestPaid(1, Len(schedule))

-----------------------------------------------------------------------------
(* Extending an extended schedule, checked under SpecExtend *)

\* C28: extension is idempotent: extending an extended schedule to the same
\* target returns it as it is, for every schedule; and a schedule whose last
\* month is already at or beyond the target is returned with no entry added.
C28_ExtensionIdempotent ==
    /\ pc = "reextended"
           => /\ extendedAmortization = firstResult.value
              /\ extendedAmortization = extendArgs.amortization
    /\ (Extended /\ MonthAfterSource > extendArgs.targetMonths)
           => extendedAmortization = extendArgs.amortization

\* a source of two entries that the first extension pads to seven and the
\* second leaves alone
C28_Witness ==
    /\ pc = "reextended"
    /\ Len(firstResult.value) = 7
    /\ "payment" \in DOMAIN firstResult.value[2]
    /\ "payment" \notin DOMAIN firstResult.value[3]
    /\ Len(extendedAmortization) = 7

-----------------------------------------------------------------------------
(* The break-even result, checked under Spec *)

\* the records of cashFlowSchedule whose liquid cumulative, the one the
\* break-even search reads, is not negative
NonNegativeMonths ==
    {k \in 1..Len(cashFlowSchedule) : cashFlowSchedule[k].cumulative >= 0}

\* C29: breakEvenYears = 0, displayed as 'Never', is produced only when the
\* break-even cumulative is below zero in all months 0..480; whenever some month
\* reaches a non-negative cumulative, breakEvenYears is > 0, the cumulative at
\* month breakEvenYears * 12 is >= 0 and it is < 0 at every earlier month
\* (breakEvenYears is held as its number of months).
C29_NeverOnlyIfNeverReached ==
    MetricsDone =>
        /\ metrics.breakEvenYears = 0 => NonNegativeMonths = {}
        /\ NonNegativeMonths # {}
               => /\ metrics.breakEvenYears > 0
                  /\ cashFlowSchedule[metrics.breakEvenYears + 1].cumulative >= 0
                  /\ \A k \in 1..metrics.breakEvenYears :
                         cashFlowSchedule[k].cumulative < 0

-----------------------------------------------------------------------------
(* The optimizer against the first month of the metrics, checked under Spec *)

\* the optimizer's values have reached the first record of the schedule
FirstMonthOptimized ==
    /\ InMetrics /\ params.isOptimizationMode
    /\ Len(monthlyCashFlowSchedule) > 0

\* the solved rent lies above the first month's deductibles: a taxed profit
SolvedInProfit ==
    /\ params.applyGermanTax
    /\ monthlyCashFlowSchedule[1].rentIncome
           > MonthDeductibles(monthlyCashFlowSchedule[1])

\* C30: the optimizer and the accumulator agree: with calculateOptimalScenario's
\* monthlyPayment and minRent fed into calculateAmortization and
\* calculateInvestmentMetrics, with the same debt, rate, buildingValue,
\* annualExpenses, taxRate (< 99) and applyGermanTax, the netCashFlow of month 0
\* is within 0.05 of targetCashFlow, for solved rents in the loss region and in
\* the profit region.
C30_OptimizerMeetsTarget ==
    (FirstMonthOptimized /\ params.taxRate < 99)
        => /\ monthlyCashFlowSchedule[1].month = 0
           /\ monthlyCashFlowSchedule[1].rentIncome = optimal.minRent
           /\ Abs(monthlyCashFlowSchedule[1].netCashFlow - params.targetCashFlow)
                  <= 5 * Cent

\* a loan at interest with a target of 2.00 a month and applyGermanTax: the
\* solved rent is above the deductibles, the profit is taxed, and the first
\* month still nets the target
C30_Witness ==
    /\ FirstMonthOptimized /\ pc = "metrics" /\ Len(monthlyCashFlowSchedule) = 1
    /\ SolvedInProfit
    /\ params.targetCashFlow = 2 * Unit
    /\ monthlyCashFlowSchedule[1].interestPayment > 0
    /\ monthlyCashFlowSchedule[1].taxOnRent > 0
    /\ monthlyCashFlowSchedule[1].mortgagePayment = optimal.monthlyPayment
    /\ Abs(monthlyCashFlowSchedule[1].netCashFlow - 2 * Unit) <= 5 * Cent

\* the same in the loss region: the solved rent is below the deductibles and
\* the reimbursement closes the gap to the payment
C30_LossRegionReached ==
    /\ FirstMonthOptimized /\ pc = "metrics" /\ Len(monthlyCashFlowSchedule) = 1
    /\ params.applyGermanTax /\ ~SolvedInProfit
    /\ monthlyCashFlowSchedule[1].interestPayment > 0
    /\ monthlyCashFlowSchedule[1].taxOnRent < 0
    /\ Abs(monthlyCashFlowSchedule[1].netCashFlow - params.targetCashFlow) <= 5 * Cent

=============================================================================
